---- MODULE Spec2Model ----
(***************************************************************************)
(* The patch tools and verification probes of the jansson security-audit   *)
(* scripts, as a state machine over the files they read and rewrite.       *)
(*                                                                         *)
(* A file is the string of its bytes.  The scripts open files in Python    *)
(* text mode on a POSIX host: reading translates "\r\n" and a lone "\r"    *)
(* to "\n" (universal newlines), writing emits the text as it is.          *)
(* Texts are ASCII; chr(0), which a TLA+ string cannot hold, is written    *)
(* "@" (no other text of the model contains "@").                          *)
(***************************************************************************)
EXTENDS Integers, Sequences, FiniteSets, TLC

\* Bounds of the model.
MaxRuns == 2      \* script executions in one behaviour
MaxCopies == 2    \* repetitions of the body part of an initial file
MaxTestRuns == 1  \* executions of test_analysis.py in one behaviour
MaxListed == 4    \* C files in the src directory of an analysed project
MaxBreaks == 107  \* line feeds in the name of a C file
MaxRoundRuns == 3 \* scans, patches and probes of one file in one behaviour
MaxScanLines == 2 \* lines of a scanned C file

(***************************************************************************)
(* The state: the files on disk, the script or function that is running    *)
(* with its locals, and the runs that have ended.                          *)
(***************************************************************************)
VARIABLES
    disk,     \* the files that exist: path -> bytes
    prog,     \* the script that is running, "none" between runs
    pc,       \* where it is: idle, run, open, close, print, exit
    before,   \* the bytes of its target file when it started
    mem,      \* the text it is about to write
    out,      \* the lines it has printed
    fault,    \* the exception that ended it, "none" if none
    opened,   \* whether it has opened its target file for writing
    hist,     \* the runs that have ended, oldest first
    arg,      \* the path it was called with, "" if it takes none
    rc,       \* its exit status
    calls,    \* test_analysis.main: the tests called so far, with their results
    passed,   \* test_analysis.main: passed
    issues,   \* analyze_c_file: the list it returns
    project_path,   \* JanssonAnalyzer: self.project_path, "" before construction
    analysis_data,  \* JanssonAnalyzer: self.analysis_data
    listing,  \* the C files of the src directories, in the order their
              \* directory lists them
    modified  \* the files written since the tree was laid out: those whose
              \* modification time is later than the tree's

(***************************************************************************)
(* Python str operations, as the scripts use them.                         *)
(***************************************************************************)

\* the elements of a list
Range(f) == {f[x] : x \in DOMAIN f}

\* needle occurs in hay at index i (indices start at 1)
At(hay, needle, i) ==
    /\ i >= 1
    /\ i + Len(needle) - 1 <= Len(hay)
    /\ SubSeq(hay, i, i) = SubSeq(needle, 1, 1)
    /\ SubSeq(hay, i, i + Len(needle) - 1) = needle

\* every index at which needle occurs in hay
Hits(hay, needle) ==
    {i \in 1..(Len(hay) - Len(needle) + 1) : At(hay, needle, i)}

\* the lowest member of hits that is >= from, 0 if there is none
NextHit(hits, from) ==
    IF \E i \in hits : i >= from
    THEN CHOOSE i \in hits : i >= from /\ \A j \in from..(i - 1) : j \notin hits
    ELSE 0

\* the members of S in lo..hi, in ascending order
RECURSIVE Ascending(_, _, _)
Ascending(S, lo, hi) ==
    IF lo > hi THEN <<>>
    ELSE IF lo = hi THEN (IF lo \in S THEN <<lo>> ELSE <<>>)
    ELSE LET mid == (lo + hi) \div 2
         IN  Ascending(S, lo, mid) \o Ascending(S, mid + 1, hi)

\* hay.find(needle, from - 1) + 1
Find(hay, needle, from) == NextHit(Hits(hay, needle), from)

\* needle in hay
Occurs(needle, hay) ==
    \E i \in 1..(Len(hay) - Len(needle) + 1) : At(hay, needle, i)

\* hay.replace(old, new): every non-overlapping occurrence, left to right
RECURSIVE ReplaceFrom(_, _, _, _, _)
ReplaceFrom(hay, hits, width, new, from) ==
    LET i == NextHit(hits, from)
    IN  IF i = 0 THEN SubSeq(hay, from, Len(hay))
        ELSE SubSeq(hay, from, i - 1) \o new
             \o ReplaceFrom(hay, hits, width, new, i + width)

Replace(hay, old, new) == ReplaceFrom(hay, Hits(hay, old), Len(old), new, 1)

\* text.split("\n"): the pieces between newlines (always at least one piece)
Split(text) ==
    LET nl == Ascending(Hits(text, "\n"), 1, Len(text))
    IN  [k \in 1..(Len(nl) + 1) |->
            SubSeq(text, IF k = 1 THEN 1 ELSE nl[k - 1] + 1,
                         IF k > Len(nl) THEN Len(text) ELSE nl[k] - 1)]

\* sep.join(pieces)
RECURSIVE JoinWith(_, _)
JoinWith(pieces, sep) ==
    IF Len(pieces) = 0 THEN ""
    ELSE IF Len(pieces) = 1 THEN pieces[1]
    ELSE LET mid == Len(pieces) \div 2
         IN  JoinWith(SubSeq(pieces, 1, mid), sep) \o sep
                 \o JoinWith(SubSeq(pieces, mid + 1, Len(pieces)), sep)

\* "\n".join(pieces)
Join(pieces) == JoinWith(pieces, "\n")

\* "".join(lines), as f.writelines(lines) writes them
Concat(lines) == JoinWith(lines, "")

\* f.readlines() on translated text: each line keeps its "\n"; the last line
\* has none when the text does not end in one; no line for the empty text
ReadLines(text) ==
    LET nl == Ascending(Hits(text, "\n"), 1, Len(text))
        n == IF Len(nl) > 0 /\ nl[Len(nl)] = Len(text) THEN Len(nl)
             ELSE IF Len(text) = 0 THEN 0 ELSE Len(nl) + 1
    IN  [k \in 1..n |->
            SubSeq(text, IF k = 1 THEN 1 ELSE nl[k - 1] + 1,
                         IF k > Len(nl) THEN Len(text) ELSE nl[k])]

\* the control characters VT, FS, GS, RS and US (0x0b, 0x1c .. 0x1f)
VT == ""
FS == ""
GS == ""
RS == ""
US == ""

\* the characters str.strip() removes
Whitespace == {" ", "\t", "\n", "\r", "\f", VT, FS, GS, RS, US}

\* line.strip()
Strip(line) ==
    LET keep == {i \in 1..Len(line) : SubSeq(line, i, i) \notin Whitespace}
    IN  IF keep = {} THEN ""
        ELSE SubSeq(line,
                    CHOOSE i \in keep : \A j \in 1..(i - 1) : j \notin keep,
                    CHOOSE i \in keep : \A j \in (i + 1)..Len(line) : j \notin keep)

\* open(path, "r").read(): universal newlines.  Every "\r" goes: one that a
\* "\n" follows is dropped, any other becomes "\n".
ReadText(bytes) ==
    LET cr == Ascending(Hits(bytes, "\r"), 1, Len(bytes))
    IN  Concat([k \in 1..(Len(cr) + 1) |->
            SubSeq(bytes, IF k = 1 THEN 1 ELSE cr[k - 1] + 1,
                          IF k > Len(cr) THEN Len(bytes) ELSE cr[k] - 1)
            \o (IF k > Len(cr) \/ At(bytes, "\n", cr[k] + 1) THEN "" ELSE "\n")])

\* open(path, "w").write(text) on POSIX: "\n" is written as os.linesep = "\n"
WriteBytes(text) == text

(***************************************************************************)
(* patch1_add_security_flags.py                                            *)
(***************************************************************************)

CMakeLists == "CMakeLists.txt"

\* the line patch1 looks for
p1_anchor ==
    "add_definitions( \"/W3 /D_CRT_SECURE_NO_WARNINGS /wd4005 /wd4996 /nologo\" )"

security_flags == <<
    "   # Security hardening flags",
    "   add_definitions( \"-fstack-protector-strong\" )",
    "   add_definitions( \"-D_FORTIFY_SOURCE=2\" )",
    "   add_definitions( \"-fPIE\" )",
    "   add_definitions( \"-Wformat\" )",
    "   add_definitions( \"-Wformat-security\" )"
>>

\* the for loop: the index of the first line holding the anchor, 0 if none
\* (the loop breaks at the first hit)
p1_first_anchor_line(lines) ==
    NextHit({i \in 1..Len(lines) : Occurs(p1_anchor, lines[i])}, 1)

\* lines[i+1:i+1] = security_flags (i is 0-based there, 1-based here)
p1_insert(lines, i) ==
    SubSeq(lines, 1, i) \o security_flags \o SubSeq(lines, i + 1, Len(lines))

\* the text patch1 writes for the text it read
p1_new_content(content) ==
    LET lines == Split(content)
        i == p1_first_anchor_line(lines)
    IN  Join(IF i = 0 THEN lines ELSE p1_insert(lines, i))

p1_status == "Patch 1 applied: Security compiler flags added"

(***************************************************************************)
(* patch2_fix_memory_safety.py                                             *)
(***************************************************************************)

MemoryC == "src/memory.c"

old_function ==
    "void *jsonp_realloc(void *ptr, size_t originalSize, size_t newSize) {\n"
    \o "    void *newMemory;\n"
    \o "\n"
    \o "    if (do_realloc)\n"
    \o "        return (*do_realloc)(ptr, newSize);\n"
    \o "\n"
    \o "    // realloc emulation using malloc and free\n"
    \o "    if (newSize == 0) {\n"
    \o "        if (ptr != NULL)\n"
    \o "            (*do_free)(ptr);\n"
    \o "\n"
    \o "        return NULL;\n"
    \o "    } else {\n"
    \o "        newMemory = (*do_malloc)(newSize);\n"
    \o "\n"
    \o "        if ((newMemory != NULL) && (ptr != NULL)) {\n"
    \o "            memcpy(newMemory, ptr, (originalSize < newSize) ? originalSize : newSize);\n"
    \o "\n"
    \o "            (*do_free)(ptr);\n"
    \o "        }\n"
    \o "\n"
    \o "        return newMemory;\n"
    \o "    }\n"
    \o "}"

\* new_function as a careless edit would leave it: the original function is
\* kept and only a comment is put in front of it
new_function_keeps_old == "/* hardened */\n" \o old_function

new_function ==
    "void *jsonp_realloc(void *ptr, size_t originalSize, size_t newSize) {\n"
    \o "    void *newMemory;\n"
    \o "\n"
    \o "    if (do_realloc) {\n"
    \o "        newMemory = (*do_realloc)(ptr, newSize);\n"
    \o "        if (newMemory == NULL && newSize != 0) {\n"
    \o "            // realloc failed, original ptr is still valid\n"
    \o "            return NULL;\n"
    \o "        }\n"
    \o "        return newMemory;\n"
    \o "    }\n"
    \o "\n"
    \o "    // realloc emulation using malloc and free\n"
    \o "    if (newSize == 0) {\n"
    \o "        if (ptr != NULL)\n"
    \o "            (*do_free)(ptr);\n"
    \o "\n"
    \o "        return NULL;\n"
    \o "    } else {\n"
    \o "        newMemory = (*do_malloc)(newSize);\n"
    \o "\n"
    \o "        if (newMemory == NULL) {\n"
    \o "            // malloc failed, original ptr is still valid\n"
    \o "            return NULL;\n"
    \o "        }\n"
    \o "\n"
    \o "        if (ptr != NULL) {\n"
    \o "            memcpy(newMemory, ptr, (originalSize < newSize) ? originalSize : newSize);\n"
    \o "            (*do_free)(ptr);\n"
    \o "        }\n"
    \o "\n"
    \o "        return newMemory;\n"
    \o "    }\n"
    \o "}"

\* content.replace(old_function, new_function)
p2_new_content(content) == Replace(content, old_function, new_function)

p2_status == "Patch 2 applied: Memory safety issues fixed"

(***************************************************************************)
(* patch3_fix.py                                                           *)
(***************************************************************************)

StrbufferC == "src/strbuffer.c"

p3_signature ==
    "int strbuffer_append_bytes(strbuffer_t *strbuff, const char *data, size_t size)"

p3_next_function == "strbuffer_pop"

p3_new_function == <<
    "int strbuffer_append_bytes(strbuffer_t *strbuff, const char *data, size_t size) {\n",
    "    if (size == 0)\n",
    "        return 0;\n",
    "        \n",
    "    if (data == NULL)\n",
    "        return -1;\n",
    "        \n",
    "    if (size >= strbuff->size - strbuff->length) {\n",
    "        size_t new_size;\n",
    "        char *new_value;\n",
    "\n",
    "        /* avoid integer overflow */\n",
    "        if (strbuff->size > STRBUFFER_SIZE_MAX / STRBUFFER_FACTOR ||\n",
    "            size > STRBUFFER_SIZE_MAX - 1 ||\n",
    "            strbuff->length > STRBUFFER_SIZE_MAX - 1 - size)\n",
    "            return -1;\n",
    "\n",
    "        new_size = max(strbuff->size * STRBUFFER_FACTOR, strbuff->length + size + 1);\n",
    "\n",
    "        new_value = jsonp_realloc(strbuff->value, strbuff->size, new_size);\n",
    "        if (!new_value)\n",
    "            return -1;\n",
    "\n",
    "        strbuff->value = new_value;\n",
    "        strbuff->size = new_size;\n",
    "    }\n",
    "\n",
    "    /* bounds checking - ensure we don't write past buffer */\n",
    "    if (strbuff->length + size >= strbuff->size)\n",
    "        return -1;\n",
    "        \n",
    "    memcpy(strbuff->value + strbuff->length, data, size);\n",
    "    strbuff->length += size;\n",
    "    strbuff->value[strbuff->length] = '\\0';\n",
    "\n",
    "    return 0;\n",
    "}\n"
>>

(* The state of the for loop: start_line and end_line (lines are numbered   *)
(* from 1 here, so 0 stands for None), and how the loop has ended, if it    *)
(* has: by the break, or by the IndexError that lines[i+1] raises when the  *)
(* line tested is the last one.                                             *)
p3_before_loop ==
    [fault |-> "none", broke |-> FALSE, start_line |-> 0, end_line |-> 0]

\* p3_body without the test of the following line: the first closing-brace
\* line after the signature ends the span
p3_body_first_brace(lines, i, st) ==
    IF Occurs(p3_signature, lines[i])
    THEN [st EXCEPT !.start_line = i]
    ELSE IF st.start_line # 0 /\ Strip(lines[i]) = "}"
    THEN [st EXCEPT !.end_line = i, !.broke = TRUE]
    ELSE st

\* p3_body without the test "start_line is not None" of the elif: a closing
\* brace is tested for the end whether or not the signature was seen
p3_body_unguarded(lines, i, st) ==
    IF Occurs(p3_signature, lines[i])
    THEN [st EXCEPT !.start_line = i]
    ELSE IF Strip(lines[i]) = "}"
    THEN IF i + 1 > Len(lines)
         THEN [st EXCEPT !.fault = "IndexError"]
         ELSE IF Occurs(p3_next_function, lines[i + 1])
         THEN [st EXCEPT !.end_line = i, !.broke = TRUE]
         ELSE st
    ELSE st

\* the body of the for loop, at line i
p3_body(lines, i, st) ==
    IF Occurs(p3_signature, lines[i])
    THEN [st EXCEPT !.start_line = i]
    ELSE IF st.start_line # 0 /\ Strip(lines[i]) = "}"
    THEN IF i + 1 > Len(lines)
         THEN [st EXCEPT !.fault = "IndexError"]
         ELSE IF Occurs(p3_next_function, lines[i + 1])
         THEN [st EXCEPT !.end_line = i, !.broke = TRUE]
         ELSE st
    ELSE st

\* the for loop over lines lo..hi, which stops at the break or the exception
RECURSIVE p3_loop(_, _, _, _)
p3_loop(lines, lo, hi, st) ==
    IF lo > hi \/ st.broke \/ st.fault # "none" THEN st
    ELSE IF lo = hi THEN p3_body(lines, lo, st)
    ELSE LET mid == (lo + hi) \div 2
             left == p3_loop(lines, lo, mid, st)
         IN  p3_loop(lines, mid + 1, hi, left)

p3_locate(lines) == p3_loop(lines, 1, Len(lines), p3_before_loop)

\* lines[start_line:end_line+1] = new_function
p3_splice(lines, start_line, end_line) ==
    SubSeq(lines, 1, start_line - 1) \o p3_new_function
        \o SubSeq(lines, end_line + 1, Len(lines))

p3_not_found == "Could not find strbuffer_append_bytes function"

p3_status == "Patch 3 applied: Bounds checking added to strbuffer operations"

(***************************************************************************)
(* patch3_fix2.py                                                          *)
(***************************************************************************)

old_start ==
    "int strbuffer_append_bytes(strbuffer_t *strbuff, const char *data, size_t size) {\n"
    \o "    if (size >= strbuff->size - strbuff->length) {\n"
    \o "        size_t new_size;\n"
    \o "        char *new_value;\n"
    \o "\n"
    \o "        /* avoid integer overflow */\n"
    \o "        if (strbuff->size > STRBUFFER_SIZE_MAX / STRBUFFER_FACTOR ||\n"
    \o "            size > STRBUFFER_SIZE_MAX - 1 ||\n"
    \o "            strbuff->length > STRBUFFER_SIZE_MAX - 1 - size)\n"
    \o "            return -1;\n"
    \o "\n"
    \o "        new_size = max(strbuff->size * STRBUFFER_FACTOR, strbuff->length + size + 1);\n"
    \o "\n"
    \o "        new_value = jsonp_realloc(strbuff->value, strbuff->size, new_size);\n"
    \o "        if (!new_value)\n"
    \o "            return -1;\n"
    \o "\n"
    \o "        strbuff->value = new_value;\n"
    \o "        strbuff->size = new_size;\n"
    \o "    }\n"
    \o "\n"
    \o "    memcpy(strbuff->value + strbuff->length, data, size);\n"
    \o "    strbuff->length += size;\n"
    \o "    strbuff->value[strbuff->length] = '@';\n"
    \o "\n"
    \o "    return 0;\n"
    \o "}"

new_start ==
    "int strbuffer_append_bytes(strbuffer_t *strbuff, const char *data, size_t size) {\n"
    \o "    if (size == 0)\n"
    \o "        return 0;\n"
    \o "        \n"
    \o "    if (data == NULL)\n"
    \o "        return -1;\n"
    \o "        \n"
    \o "    if (size >= strbuff->size - strbuff->length) {\n"
    \o "        size_t new_size;\n"
    \o "        char *new_value;\n"
    \o "\n"
    \o "        /* avoid integer overflow */\n"
    \o "        if (strbuff->size > STRBUFFER_SIZE_MAX / STRBUFFER_FACTOR ||\n"
    \o "            size > STRBUFFER_SIZE_MAX - 1 ||\n"
    \o "            strbuff->length > STRBUFFER_SIZE_MAX - 1 - size)\n"
    \o "            return -1;\n"
    \o "\n"
    \o "        new_size = max(strbuff->size * STRBUFFER_FACTOR, strbuff->length + size + 1);\n"
    \o "\n"
    \o "        new_value = jsonp_realloc(strbuff->value, strbuff->size, new_size);\n"
    \o "        if (!new_value)\n"
    \o "            return -1;\n"
    \o "\n"
    \o "        strbuff->value = new_value;\n"
    \o "        strbuff->size = new_size;\n"
    \o "    }\n"
    \o "\n"
    \o "    /* bounds checking - ensure we don't write past buffer */\n"
    \o "    if (strbuff->length + size >= strbuff->size)\n"
    \o "        return -1;\n"
    \o "        \n"
    \o "    memcpy(strbuff->value + strbuff->length, data, size);\n"
    \o "    strbuff->length += size;\n"
    \o "    strbuff->value[strbuff->length] = '@';\n"
    \o "\n"
    \o "    return 0;\n"
    \o "}"

\* the replacement with its arguments exchanged
p32_new_content_swapped(content) == Replace(content, new_start, old_start)

\* content.replace(old_start, new_start)
p32_new_content(content) == Replace(content, old_start, new_start)

(***************************************************************************)
(* patch5_add_input_validation.py                                          *)
(***************************************************************************)

HashtableC == "src/hashtable.c"

old_hashtable_set ==
    "int hashtable_set(hashtable_t *hashtable, const char *key, size_t key_len,\n"
    \o "                  json_t *value) {\n"
    \o "    pair_t *pair;\n"
    \o "    bucket_t *bucket;\n"
    \o "    size_t hash, index;\n"
    \o "\n"
    \o "    /* rehash if the load ratio exceeds 1 */\n"
    \o "    if (hashtable->size >= hashsize(hashtable->order))\n"
    \o "        if (hashtable_do_rehash(hashtable))\n"
    \o "            return -1;\n"
    \o "\n"
    \o "    hash = hash_str(key, key_len);\n"
    \o "    index = hash & hashmask(hashtable->order);\n"
    \o "    bucket = &hashtable->buckets[index];\n"
    \o "    pair = hashtable_find_pair(hashtable, bucket, key, key_len, hash);\n"
    \o "\n"
    \o "    if (pair) {\n"
    \o "        json_decref(pair->value);\n"
    \o "        pair->value = value;\n"
    \o "    } else {\n"
    \o "        pair = init_pair(value, key, key_len, hash);\n"
    \o "\n"
    \o "        if (!pair)\n"
    \o "            return -1;\n"
    \o "\n"
    \o "        insert_to_bucket(hashtable, bucket, &pair->list);\n"
    \o "        list_insert(&hashtable->ordered_list, &pair->ordered_list);\n"
    \o "\n"
    \o "        hashtable->size++;\n"
    \o "    }\n"
    \o "    return 0;\n"
    \o "}"

new_hashtable_set ==
    "int hashtable_set(hashtable_t *hashtable, const char *key, size_t key_len,\n"
    \o "                  json_t *value) {\n"
    \o "    pair_t *pair;\n"
    \o "    bucket_t *bucket;\n"
    \o "    size_t hash, index;\n"
    \o "\n"
    \o "    /* input validation */\n"
    \o "    if (!hashtable || !key || key_len == 0 || !value)\n"
    \o "        return -1;\n"
    \o "\n"
    \o "    /* rehash if the load ratio exceeds 1 */\n"
    \o "    if (hashtable->size >= hashsize(hashtable->order))\n"
    \o "        if (hashtable_do_rehash(hashtable))\n"
    \o "            return -1;\n"
    \o "\n"
    \o "    hash = hash_str(key, key_len);\n"
    \o "    index = hash & hashmask(hashtable->order);\n"
    \o "    bucket = &hashtable->buckets[index];\n"
    \o "    pair = hashtable_find_pair(hashtable, bucket, key, key_len, hash);\n"
    \o "\n"
    \o "    if (pair) {\n"
    \o "        json_decref(pair->value);\n"
    \o "        pair->value = value;\n"
    \o "    } else {\n"
    \o "        pair = init_pair(value, key, key_len, hash);\n"
    \o "\n"
    \o "        if (!pair)\n"
    \o "            return -1;\n"
    \o "\n"
    \o "        insert_to_bucket(hashtable, bucket, &pair->list);\n"
    \o "        list_insert(&hashtable->ordered_list, &pair->ordered_list);\n"
    \o "\n"
    \o "        hashtable->size++;\n"
    \o "    }\n"
    \o "    return 0;\n"
    \o "}"

old_hashtable_get ==
    "void *hashtable_get(hashtable_t *hashtable, const char *key, size_t key_len) {\n"
    \o "    pair_t *pair;\n"
    \o "    size_t hash;\n"
    \o "    bucket_t *bucket;\n"
    \o "\n"
    \o "    hash = hash_str(key, key_len);\n"
    \o "    bucket = &hashtable->buckets[hash & hashmask(hashtable->order)];\n"
    \o "\n"
    \o "    pair = hashtable_find_pair(hashtable, bucket, key, key_len, hash);\n"
    \o "    if (!pair)\n"
    \o "        return NULL;\n"
    \o "\n"
    \o "    return pair->value;\n"
    \o "}"

new_hashtable_get ==
    "void *hashtable_get(hashtable_t *hashtable, const char *key, size_t key_len) {\n"
    \o "    pair_t *pair;\n"
    \o "    size_t hash;\n"
    \o "    bucket_t *bucket;\n"
    \o "\n"
    \o "    /* input validation */\n"
    \o "    if (!hashtable || !key || key_len == 0)\n"
    \o "        return NULL;\n"
    \o "\n"
    \o "    hash = hash_str(key, key_len);\n"
    \o "    bucket = &hashtable->buckets[hash & hashmask(hashtable->order)];\n"
    \o "\n"
    \o "    pair = hashtable_find_pair(hashtable, bucket, key, key_len, hash);\n"
    \o "    if (!pair)\n"
    \o "        return NULL;\n"
    \o "\n"
    \o "    return pair->value;\n"
    \o "}"

old_hashtable_del ==
    "int hashtable_del(hashtable_t *hashtable, const char *key, size_t key_len) {\n"
    \o "    size_t hash = hash_str(key, key_len);\n"
    \o "    return hashtable_do_del(hashtable, key, key_len, hash);\n"
    \o "}"

new_hashtable_del ==
    "int hashtable_del(hashtable_t *hashtable, const char *key, size_t key_len) {\n"
    \o "    size_t hash;\n"
    \o "\n"
    \o "    /* input validation */\n"
    \o "    if (!hashtable || !key || key_len == 0)\n"
    \o "        return -1;\n"
    \o "\n"
    \o "    hash = hash_str(key, key_len);\n"
    \o "    return hashtable_do_del(hashtable, key, key_len, hash);\n"
    \o "}"

\* the three replacements, one after the other
p5_new_content(content) ==
    Replace(Replace(Replace(content, old_hashtable_set, new_hashtable_set),
                    old_hashtable_get, new_hashtable_get),
            old_hashtable_del, new_hashtable_del)

p5_status == "Patch 5 applied: Input validation added to hashtable functions"

(***************************************************************************)
(* reproduce_issues_fixed.py                                               *)
(***************************************************************************)

\* U+2713 and U+2717, which the probes print, in ASCII
OkMark == "(v)"
BadMark == "(x)"

validation_checks == <<
    "if (!hashtable || !key || key_len == 0 || !value)",
    "if (!hashtable || !key || key_len == 0)"
>>

\* the lines the for loop of check_input_validation prints
RECURSIVE civ_found_lines(_, _)
civ_found_lines(content, k) ==
    IF k > Len(validation_checks) THEN <<>>
    ELSE (IF Occurs(validation_checks[k], content)
          THEN <<OkMark \o " Found input validation: " \o validation_checks[k]>>
          ELSE <<>>)
         \o civ_found_lines(content, k + 1)

\* found, after the loop
civ_found(content) ==
    Cardinality({k \in 1..Len(validation_checks) :
                    Occurs(validation_checks[k], content)})

civ_none == BadMark \o " No input validation found"

\* what check_input_validation prints before it opens the file
civ_header == <<"", "=== Checking Input Validation ===">>

\* everything check_input_validation prints for the text it read
civ_output(content) ==
    civ_header
        \o civ_found_lines(content, 1)
        \o (IF civ_found(content) = 0 THEN <<civ_none>> ELSE <<>>)

HashtableSeedC == "src/hashtable_seed.c"

\* security_flags of check_compiler_flags
ccf_security_flags == <<
    "-fstack-protector-strong",
    "-D_FORTIFY_SOURCE=2",
    "-fPIE",
    "-Wformat",
    "-Wformat-security"
>>

\* what check_compiler_flags prints before it opens the file
ccf_header == <<"=== Checking Compiler Flags ===">>

\* everything check_compiler_flags prints for the text it read
ccf_output(content) ==
    ccf_header
        \o [k \in DOMAIN ccf_security_flags |->
               IF Occurs(ccf_security_flags[k], content)
               THEN OkMark \o " Found " \o ccf_security_flags[k]
               ELSE BadMark \o " Missing " \o ccf_security_flags[k]]

cms_marker == "if (newMemory == NULL && newSize != 0)"

\* what it prints before it opens the file
cms_header == <<"", "=== Checking Memory Safety ===">>

\* check_memory_safety taking a file that has been rewritten for a file
\* that has been patched
cms_output_trusting(content) ==
    cms_header \o <<
      IF \/ Occurs(cms_marker, content)
         \/ MemoryC \in modified
      THEN OkMark \o " Realloc NULL return is properly handled"
      ELSE BadMark \o " Realloc NULL return handling missing">>

\* everything check_memory_safety prints for the text it read
cms_output(content) ==
    cms_header \o <<
      IF Occurs(cms_marker, content)
      THEN OkMark \o " Realloc NULL return is properly handled"
      ELSE BadMark \o " Realloc NULL return handling missing">>

chr_marker == "volatile uint32_t hashtable_seed"

\* what it prints before it opens the file
chr_header == <<"", "=== Checking Hash Table Randomization ===">>

\* everything check_hashtable_randomization prints for the text it read
chr_output(content) ==
    chr_header \o <<
      IF Occurs(chr_marker, content)
      THEN OkMark \o " hashtable_seed is volatile"
      ELSE BadMark \o " hashtable_seed should be volatile">>

cbop_marker == "if (strbuff->length + size >= strbuff->size)"

\* what it prints before it opens the file
cbop_header == <<"", "=== Checking Buffer Overflow Protection ===">>

\* everything check_buffer_overflow_protection prints for the text it read
cbop_output(content) ==
    cbop_header \o <<
      IF Occurs(cbop_marker, content)
      THEN OkMark \o " Bounds checking added to strbuffer"
      ELSE BadMark \o " Bounds checking missing from strbuffer">>

\* the probes, in the order main calls them
main_checks == <<
    "check_compiler_flags",
    "check_memory_safety",
    "check_hashtable_randomization",
    "check_buffer_overflow_protection",
    "check_input_validation"
>>

\* what main prints before its first probe
main_banner == <<"Jansson Library Security Issues Reproduction",
                 "==================================================">>

\* what main prints after its last probe
main_summary == <<"", "=== Summary ===",
                  "All security patches have been applied successfully!">>

(***************************************************************************)
(* test_analysis.py                                                        *)
(*                                                                         *)
(* A test yields what it printed, what it did (ret: "True", "False" or     *)
(* "raise") and, when it raised, str(e).  What a subprocess gives back     *)
(* (cmake, grep) is an input: its return code and its output.              *)
(***************************************************************************)

Returned(lines, value) == [lines |-> lines, ret |-> value, exc |-> ""]
Raised(lines, message) == [lines |-> lines, ret |-> "raise", exc |-> message]

NoSuchFile(name) == "[Errno 2] No such file or directory: '" \o name \o "'"

\* test_cmake and test_c, the files test_build_system writes
test_cmake == "\ncmake_minimum_required(VERSION 3.10)\nproject(test)\n"
                  \o "add_executable(test test.c)\n"
test_c == "\nint main() { return 0; }\n"

CmakeTestFiles ==
    [path \in {"cmake_test/CMakeLists.txt", "cmake_test/test.c"} |->
        IF path = "cmake_test/test.c" THEN test_c ELSE test_cmake]

\* what cmake may leave below cmake_test/build
CmakeBuilt == {[path \in {} |-> ""],
               [path \in {"cmake_test/build/CMakeCache.txt"} |-> "# cache\n"]}

\* what cmake can do: not installed, --version fails, os.makedirs raises,
\* the configuration fails with the given stderr, or all goes well
CmakeRuns == {[kind |-> "missing", stderr |-> ""],
              [kind |-> "version_fails", stderr |-> ""],
              [kind |-> "makedirs_raises", stderr |-> ""],
              [kind |-> "configure_fails", stderr |-> "CMake Error: no compiler\n"],
              [kind |-> "ok", stderr |-> ""]}

\* test_build_system(), given what cmake does
test_build_system(cmake) ==
    LET head == <<"Testing build system...">>
    IN  CASE cmake.kind = "missing" -> Raised(head, NoSuchFile("cmake"))
          [] cmake.kind = "version_fails" ->
                Returned(head \o <<"CMake not available">>, "False")
          [] cmake.kind = "makedirs_raises" ->
                Returned(head \o <<"CMake test failed: "
                    \o "[Errno 13] Permission denied: 'cmake_test'">>, "False")
          [] cmake.kind = "configure_fails" ->
                Returned(head \o Split("CMake configuration failed: "
                                           \o cmake.stderr), "False")
          [] cmake.kind = "ok" ->
                Returned(head \o <<OkMark \o " Build system test passed">>, "True")

\* the files of a, and those of b under the other names
Overlay(a, b) ==
    [path \in DOMAIN a \cup DOMAIN b |-> IF path \in DOMAIN a THEN a[path] ELSE b[path]]

\* the tree after the two files of the test project have been written
tbs_written(files) == Overlay(CmakeTestFiles, files)

\* the tree after cmake has run and left the files built
tbs_configured(files, built) == Overlay(built, files)

\* shutil.rmtree('cmake_test'): nothing below cmake_test/ is left
tbs_removed(files) ==
    [path \in {p \in DOMAIN files : ~At(p, "cmake_test/", 1)} |-> files[path]]

\* a result without the line printed before it came about
AfterHead(result) == [result EXCEPT !.lines = Tail(@)]

\* security_flags of test_security_flags
tsf_security_flags == <<"-fstack-protector", "-D_FORTIFY_SOURCE", "-fPIE", "-pie">>

\* repr() of a list of plain strings
ListRepr(items) ==
    "[" \o JoinWith([k \in DOMAIN items |-> "'" \o items[k] \o "'"], ", ") \o "]"

\* missing_flags, after the loop
tsf_missing_flags(content) ==
    SelectSeq(tsf_security_flags, LAMBDA flag : ~Occurs(flag, content))

\* test_security_flags(), given the files
test_security_flags(files) ==
    LET head == <<"Testing security compilation flags...">>
    IN  IF CMakeLists \notin DOMAIN files
        THEN Raised(head, NoSuchFile(CMakeLists))
        ELSE LET missing_flags == tsf_missing_flags(ReadText(files[CMakeLists]))
             IN  IF missing_flags # <<>>
                 THEN Returned(head \o <<BadMark \o " Missing security flags: "
                                            \o ListRepr(missing_flags)>>, "False")
                 ELSE Returned(head \o <<OkMark \o " Security flags test passed">>,
                               "True")

\* unsafe_patterns of test_vulnerable_patterns
tvp_unsafe_patterns == <<"strcpy", "strcat", "gets">>

\* line[:100]
First100(line) == SubSeq(line, 1, IF Len(line) < 100 THEN Len(line) ELSE 100)

\* line.endswith(suffix)
EndsWith(line, suffix) ==
    /\ Len(suffix) <= Len(line)
    /\ SubSeq(line, Len(line) - Len(suffix) + 1, Len(line)) = suffix

\* the first element of a list that satisfies a test given as the set of
\* the indices that pass it, <<>> if there is none
FirstOf(lines, passing) ==
    LET k == NextHit(passing, 1)
    IN  IF k = 0 THEN <<>> ELSE <<lines[k]>>

\* the first grep output line that makes the unsafe-function loop fail
tvp_unsafe_line(grep) ==
    IF grep.rc # 0 THEN <<>>
    ELSE LET lines == Split(grep.stdout)
         IN  FirstOf(lines, {k \in DOMAIN lines :
                                Strip(lines[k]) # "" /\ ~Occurs("dtoa.c", lines[k])})

\* the condition of the sprintf loop without the two vetted calls
tvp_sprintf_unsafe_unvetted(line) ==
    /\ line # ""
    /\ ~Occurs("json_sprintf", line)
    /\ ~Occurs("json_vsprintf", line)
    /\ ~Occurs("dtoa.c", line)
    /\ ~EndsWith(line, "/* sprintf */")
    /\ ~Occurs("sprintf()", line)
    /\ ~Occurs("call to sprintf()", line)

\* the condition of the sprintf loop on a stripped line
tvp_sprintf_unsafe(line) ==
    /\ line # ""
    /\ ~Occurs("json_sprintf", line)
    /\ ~Occurs("json_vsprintf", line)
    /\ ~Occurs("dtoa.c", line)
    /\ ~EndsWith(line, "/* sprintf */")
    /\ ~Occurs("sprintf()", line)
    /\ ~Occurs("call to sprintf()", line)
    /\ ~Occurs("sprintf(buf, \"%#.0f\", 1.0)", line)
    /\ ~Occurs("exp_len = sprintf(p, \"%d\", exp)", line)

\* the first stripped grep output line that makes the sprintf loop fail
tvp_sprintf_line(grep) ==
    IF grep.rc # 0 THEN <<>>
    ELSE LET lines == Split(grep.stdout)
             stripped == [k \in DOMAIN lines |-> Strip(lines[k])]
         IN  FirstOf(stripped, {k \in DOMAIN stripped :
                                   tvp_sprintf_unsafe(stripped[k])})

\* safe_instances of test_vulnerable_patterns
tvp_safe_instances == <<
    "new_size * sizeof(bucket_t)",
    "hashsize(hashtable->order) * sizeof(bucket_t)",
    "sizeof(json_object_t)",
    "sizeof(json_array_t)",
    "array->size * sizeof(json_t *)",
    "sizeof(json_integer_t)",
    "size * sizeof(struct key_len)"
>>

\* unsafe_lines, after the loop over the sizeof grep
tvp_unsafe_lines(grep) ==
    IF grep.rc # 0 THEN <<>>
    ELSE SelectSeq(Split(grep.stdout),
            LAMBDA line :
                /\ Strip(line) # ""
                /\ Occurs("malloc", line)
                /\ ~Occurs("dtoa.c", line)
                /\ \A k \in DOMAIN tvp_safe_instances :
                       ~Occurs(tvp_safe_instances[k], line))

\* the grep commands of test_vulnerable_patterns, in the order it runs them
tvp_greps == tvp_unsafe_patterns \o <<"sprintf", "sizeof">>

\* what test_vulnerable_patterns does when the grep of tvp_greps[k] has
\* given back grep = [rc, stdout]: <<what it prints and returns>> when the
\* test ends there, <<>> when it goes on to its next grep
tvp_after_grep(k, grep) ==
    IF k <= Len(tvp_unsafe_patterns)
    THEN LET hit == tvp_unsafe_line(grep)
         IN  IF hit # <<>>
             THEN <<Returned(<<BadMark \o " Found unsafe function " \o tvp_greps[k]
                                \o ": " \o First100(hit[1]) \o "...">>, "False")>>
             ELSE <<>>
    ELSE IF tvp_greps[k] = "sprintf"
    THEN LET hit == tvp_sprintf_line(grep)
         IN  IF hit # <<>>
             THEN <<Returned(<<BadMark \o " Found unsafe sprintf usage: "
                                \o First100(hit[1]) \o "...">>, "False")>>
             ELSE <<>>
    ELSE LET unsafe_lines == tvp_unsafe_lines(grep)
         IN  IF Len(unsafe_lines) > 0
             THEN <<Returned(<<BadMark
                        \o " Found potential integer overflow patterns: "
                        \o ToString(Len(unsafe_lines)) \o " instances">>, "False")>>
             ELSE <<Returned(<<OkMark \o " Vulnerable patterns test passed">>,
                             "True")>>

\* the greps from tvp_greps[k] on, up to the one the test ends after
RECURSIVE tvp_from(_, _)
tvp_from(greps, k) ==
    LET end == tvp_after_grep(k, greps[tvp_greps[k]])
    IN  IF end # <<>> THEN end[1] ELSE tvp_from(greps, k + 1)

\* test_vulnerable_patterns(), given what the greps give back: greps maps
\* "strcpy", "strcat", "gets", "sprintf" and "sizeof" to [rc, stdout];
\* installed says whether grep can be run at all
test_vulnerable_patterns(installed, greps) ==
    LET head == <<"Testing for vulnerable code patterns...">>
        end == tvp_from(greps, 1)
    IN  IF ~installed THEN Raised(head, NoSuchFile("grep"))
        ELSE [end EXCEPT !.lines = head \o @]

\* tests of test_analysis.main
tam_tests == <<"test_build_system", "test_security_flags", "test_vulnerable_patterns">>

tam_banner == <<"Running Jansson Analysis Verification Tests",
                "==================================================">>

\* passed, after a test that did ret
tam_passed(count, ret) == IF ret = "True" THEN count + 1 ELSE count

\* what the body of the for loop prints around a test
tam_body_lines(result) ==
    result.lines
        \o (IF result.ret = "raise"
            THEN <<BadMark \o " Test failed with exception: " \o result.exc>>
            ELSE <<>>)
        \o <<"">>

\* where the for loop goes after the test called name: in this mutation an
\* exception ends the loop
tam_after_stops_on_raise(name, ret) ==
    IF ret = "raise" \/ name = tam_tests[Len(tam_tests)] THEN "results"
    ELSE tam_tests[(CHOOSE k \in DOMAIN tam_tests : tam_tests[k] = name) + 1]

\* where the for loop goes after the test called name, whatever it did
tam_after(name, ret) ==
    IF name = tam_tests[Len(tam_tests)] THEN "results"
    ELSE tam_tests[(CHOOSE k \in DOMAIN tam_tests : tam_tests[k] = name) + 1]

\* the value main returns
tam_status(count, total) == IF count = total THEN 0 ELSE 1

\* what main prints after the loop
tam_results(count, total) ==
    <<"Results: " \o ToString(count) \o "/" \o ToString(total) \o " tests passed",
      IF count = total
      THEN "All tests passed! The analysis findings are consistent."
      ELSE "Some tests failed. Review the findings.">>

(***************************************************************************)
(* analyze_jansson.py                                                      *)
(***************************************************************************)

\* the names analyze_c_file takes for unsafe functions
acf_unsafe_functions == <<"strcpy", "strcat", "sprintf", "gets">>

\* the operators analyze_c_file takes for an overflow risk
acf_operators == <<"*", "+", "-">>

\* the findings of line i when "free" is looked for in the line alone
acf_line_issues_per_line(content, line, i) ==
    (IF \E k \in DOMAIN acf_unsafe_functions : Occurs(acf_unsafe_functions[k], line)
     THEN <<"Line " \o ToString(i) \o ": Potentially unsafe function usage">>
     ELSE <<>>)
    \o (IF Occurs("malloc", line) /\ ~Occurs("free", line)
        THEN <<"Line " \o ToString(i)
                   \o ": Memory allocation without corresponding free">>
        ELSE <<>>)
    \o (IF (\E k \in DOMAIN acf_operators : Occurs(acf_operators[k], line))
            /\ Occurs("size_t", line)
        THEN <<"Line " \o ToString(i)
                   \o ": Potential integer overflow in size calculation">>
        ELSE <<>>)

\* the findings of line i of content, in the order they are appended
acf_line_issues(content, line, i) ==
    (IF \E k \in DOMAIN acf_unsafe_functions : Occurs(acf_unsafe_functions[k], line)
     THEN <<"Line " \o ToString(i) \o ": Potentially unsafe function usage">>
     ELSE <<>>)
    \o (IF Occurs("malloc", line) /\ ~Occurs("free", content)
        THEN <<"Line " \o ToString(i)
                   \o ": Memory allocation without corresponding free">>
        ELSE <<>>)
    \o (IF (\E k \in DOMAIN acf_operators : Occurs(acf_operators[k], line))
            /\ Occurs("size_t", line)
        THEN <<"Line " \o ToString(i)
                   \o ": Potential integer overflow in size calculation">>
        ELSE <<>>)

\* the findings of lines lo..hi
RECURSIVE acf_issues(_, _, _, _)
acf_issues(content, lines, lo, hi) ==
    IF lo > hi THEN <<>>
    ELSE IF lo = hi THEN acf_line_issues(content, lines[lo], lo)
    ELSE LET mid == (lo + hi) \div 2
         IN  acf_issues(content, lines, lo, mid)
                 \o acf_issues(content, lines, mid + 1, hi)

\* analyze_c_file(filepath), given the files
analyze_c_file(files, filepath) ==
    IF filepath \notin DOMAIN files
    THEN <<"Error analyzing file: " \o NoSuchFile(filepath)>>
    ELSE LET content == ReadText(files[filepath])
             lines == Split(content)
         IN  acf_issues(content, lines, 1, Len(lines))

(***************************************************************************)
(* The scripts as processes over the files on disk.                        *)
(***************************************************************************)

vars == <<disk, prog, pc, before, mem, out, fault, opened, hist,
          arg, rc, calls, passed, issues, project_path, analysis_data, listing,
          modified>>

\* what the patch tools and the stand-alone probes never touch
aux == <<arg, rc, calls, passed, issues, project_path, analysis_data, listing>>

\* s.startswith(prefix), prefix not empty
StartsWith(s, prefix) == At(s, prefix, 1)

\* the index of the last "/" of path, 0 if it has none
LastSlash(path) ==
    LET S == Hits(path, "/")
    IN  IF S = {} THEN 0 ELSE CHOOSE i \in S : \A j \in S : j <= i

\* os.path.basename(path) and os.path.dirname(path)
Basename(path) == SubSeq(path, LastSlash(path) + 1, Len(path))
Dirname(path) == SubSeq(path, 1, LastSlash(path) - 1)

\* the names the analysed trees give their C files
SourceName(k) == "f" \o ToString(k) \o ".c"

\* the sequences that hold each element of a set once
RECURSIVE Orderings(_)
Orderings(S) ==
    IF S = {} THEN {<<>>}
    ELSE UNION {{<<x>> \o rest : rest \in Orderings(S \ {x})} : x \in S}

\* the C files of the directories called src
src_c_files(files) ==
    {f \in DOMAIN files : EndsWith(Basename(f), ".c") /\ Basename(Dirname(f)) = "src"}

\* the orders in which the directories of a tree can list its C files: the
\* file system chooses, so every order
Listings(files) == Orderings(src_c_files(files))

\* no script is running, no analyzer object exists and no file has been
\* written
NoProcess ==
    /\ modified = {}
    /\ prog = "none"
    /\ pc = "idle"
    /\ before = ""
    /\ mem = ""
    /\ out = <<>>
    /\ fault = "none"
    /\ opened = FALSE
    /\ hist = <<>>
    /\ arg = ""
    /\ rc = 0
    /\ calls = <<>>
    /\ passed = 0
    /\ issues = <<>>
    /\ project_path = ""
    /\ analysis_data = <<>>

PatchTools == {"patch1", "patch2", "patch3_fix", "patch3_fix2", "patch5"}
ExactTextTools == {"patch2", "patch3_fix2", "patch5"}
Probes == {"check_input_validation"}
Programs == PatchTools \cup Probes
Checks == Range(main_checks)
Drivers == {"main", "test_analysis.main"}

\* the hard-coded file each script opens
Target(p) ==
    CASE p = "patch1" -> CMakeLists
      [] p = "patch2" -> MemoryC
      [] p \in {"patch3_fix", "patch3_fix2"} -> StrbufferC
      [] p \in {"patch5", "check_input_validation"} -> HashtableC
      [] p \in {"check_compiler_flags", "test_security_flags"} -> CMakeLists
      [] p = "check_memory_safety" -> MemoryC
      [] p = "check_hashtable_randomization" -> HashtableSeedC
      [] p = "check_buffer_overflow_protection" -> StrbufferC
      [] p = "analyze_c_file" -> arg
      [] p = "test_vulnerable_patterns" -> "src/"
      [] p \in Drivers -> ""

\* the status line a patch tool prints last
Status(p) ==
    CASE p = "patch1" -> p1_status
      [] p = "patch2" -> p2_status
      [] p \in {"patch3_fix", "patch3_fix2"} -> p3_status
      [] p = "patch5" -> p5_status

Paths == {CMakeLists, MemoryC, StrbufferC, HashtableC}

(***************************************************************************)
(* Initial files: head, then up to MaxCopies copies of a body, then tail.  *)
(***************************************************************************)

RECURSIVE Repeat(_, _)
Repeat(s, k) == IF k = 0 THEN "" ELSE s \o Repeat(s, k - 1)

\* a text with every "\n" written "\r\n"
Crlf(text) == JoinWith(Split(text), "\r\n")

MsvcBlock == "if (MSVC)\n   " \o p1_anchor \o "\nendif()\n"

PopFunction == "char strbuffer_pop(strbuffer_t *strbuff) {\n    return 0;\n}\n"

\* jsonp_realloc cut in two after "if (do_realloc)"
OldFunctionHead ==
    SubSeq(old_function, 1, Find(old_function, "if (do_realloc)", 1) + 14)
OldFunctionTail == SubSeq(old_function, Len(OldFunctionHead) + 1, Len(old_function))

Heads(path) ==
    CASE path = CMakeLists -> {"", "project(jansson C)\n", "project(jansson C)\r\n"}
      [] path = MemoryC -> {"", "#include <stdlib.h>\n", "#include <stdlib.h>\r\n",
                            OldFunctionHead}
      [] path = StrbufferC -> {"", "#include <stdlib.h>\n", "#include <stdlib.h>\r\n"}
      [] path = HashtableC -> {"", "#include <stdlib.h>\n", "#include <stdlib.h>\r\n"}

Bodies(path) ==
    CASE path = CMakeLists -> {MsvcBlock, Crlf(MsvcBlock)}
      [] path = MemoryC -> {old_function \o "\n", new_function \o "\n",
                            Crlf(old_function \o "\n")}
      [] path = StrbufferC -> {old_start \o "\n", new_start \o "\n",
                               p3_signature \o " {\n    if (size) {\n    }\n",
                               p3_signature \o " {\n" \o VT \o "}" \o US \o "\n"}
      [] path = HashtableC -> {old_hashtable_set \o "\n\n" \o old_hashtable_get
                                   \o "\n\n" \o old_hashtable_del \o "\n",
                               old_hashtable_set \o "\n",
                               old_hashtable_get \o "\n",
                               new_hashtable_get \o "\n\n" \o old_hashtable_del \o "\n"}

Tails(path) ==
    CASE path = CMakeLists -> {"", "\n# end\n", "# end"}
      [] path = MemoryC -> {"", "\n/* end */\n", "/* end */", OldFunctionTail}
      [] path = StrbufferC -> {"", PopFunction, "\n" \o PopFunction,
                               PopFunction \o "/* end */"}
      [] path = HashtableC -> {"", "\n/* end */\n", "/* end */"}

Contents(path) ==
    {h \o Repeat(b, k) \o t :
        h \in Heads(path), b \in Bodies(path), k \in 0..MaxCopies, t \in Tails(path)}

Init ==
    /\ \E path \in Paths : \E c \in Contents(path) : disk = (path :> c)
    /\ listing \in Listings(disk)
    /\ NoProcess

\* python3 <script>.py, when fewer than n runs have ended
StartWithin(p, n) ==
    /\ pc = "idle"
    /\ Len(hist) < n
    /\ prog' = p
    /\ pc' = "run"
    /\ before' = IF Target(p) \in DOMAIN disk THEN disk[Target(p)] ELSE ""
    /\ UNCHANGED <<disk, modified, mem, out, fault, opened, hist, aux>>

Start(p) == StartWithin(p, MaxRuns)

\* patch1 from f.read() to the lines it will write
Patch1Compute ==
    /\ prog = "patch1"
    /\ pc = "run"
    /\ IF CMakeLists \in DOMAIN disk
       THEN /\ mem' = p1_new_content(ReadText(disk[CMakeLists]))
            /\ pc' = "open"
            /\ UNCHANGED fault
       ELSE /\ fault' = "FileNotFoundError"
            /\ pc' = "exit"
            /\ UNCHANGED mem
    /\ UNCHANGED <<disk, modified, prog, before, out, opened, hist, aux>>

\* patch2 from f.read() to the replaced content
Patch2Compute ==
    /\ prog = "patch2"
    /\ pc = "run"
    /\ IF MemoryC \in DOMAIN disk
       THEN /\ mem' = p2_new_content(ReadText(disk[MemoryC]))
            /\ pc' = "open"
            /\ UNCHANGED fault
       ELSE /\ fault' = "FileNotFoundError"
            /\ pc' = "exit"
            /\ UNCHANGED mem
    /\ UNCHANGED <<disk, modified, prog, before, out, opened, hist, aux>>

\* patch3_fix2 from f.read() to the replaced content
Patch32Compute ==
    /\ prog = "patch3_fix2"
    /\ pc = "run"
    /\ IF StrbufferC \in DOMAIN disk
       THEN /\ mem' = p32_new_content(ReadText(disk[StrbufferC]))
            /\ pc' = "open"
            /\ UNCHANGED fault
       ELSE /\ fault' = "FileNotFoundError"
            /\ pc' = "exit"
            /\ UNCHANGED mem
    /\ UNCHANGED <<disk, modified, prog, before, out, opened, hist, aux>>

\* patch5 from f.read() to the content after its three replacements
Patch5Compute ==
    /\ prog = "patch5"
    /\ pc = "run"
    /\ IF HashtableC \in DOMAIN disk
       THEN /\ mem' = p5_new_content(ReadText(disk[HashtableC]))
            /\ pc' = "open"
            /\ UNCHANGED fault
       ELSE /\ fault' = "FileNotFoundError"
            /\ pc' = "exit"
            /\ UNCHANGED mem
    /\ UNCHANGED <<disk, modified, prog, before, out, opened, hist, aux>>

\* patch3_fix from readlines() to the splice, the return or the IndexError
Patch3Locate ==
    /\ prog = "patch3_fix"
    /\ pc = "run"
    /\ IF StrbufferC \notin DOMAIN disk
       THEN /\ fault' = "FileNotFoundError"
            /\ pc' = "exit"
            /\ UNCHANGED <<mem, out>>
       ELSE LET lines == ReadLines(ReadText(disk[StrbufferC]))
                r == p3_locate(lines)
            IN  IF r.fault # "none"
                THEN /\ fault' = r.fault
                     /\ pc' = "exit"
                     /\ UNCHANGED <<mem, out>>
                ELSE IF r.start_line = 0 \/ r.end_line = 0
                THEN /\ out' = Append(out, p3_not_found)
                     /\ pc' = "exit"
                     /\ UNCHANGED <<mem, fault>>
                ELSE /\ mem' = Concat(p3_splice(lines, r.start_line, r.end_line))
                     /\ pc' = "open"
                     /\ UNCHANGED <<out, fault>>
    /\ UNCHANGED <<disk, modified, prog, before, opened, hist, aux>>

\* open(path, "w"): the file is truncated
OpenForWrite ==
    /\ pc = "open"
    /\ disk' = [disk EXCEPT ![Target(prog)] = ""]
    /\ modified' = modified \cup {Target(prog)}
    /\ opened' = TRUE
    /\ pc' = "close"
    /\ UNCHANGED <<prog, before, mem, out, fault, hist, aux>>

\* f.write(content) and the end of the with block: the text reaches the file
WriteAndClose ==
    /\ pc = "close"
    /\ disk' = [disk EXCEPT ![Target(prog)] = WriteBytes(mem)]
    /\ modified' = modified \cup {Target(prog)}
    /\ pc' = "print"
    /\ UNCHANGED <<prog, before, mem, out, fault, opened, hist, aux>>

\* the print that ends apply_patch
PrintStatus ==
    /\ pc = "print"
    /\ out' = Append(out, Status(prog))
    /\ pc' = "exit"
    /\ UNCHANGED <<disk, modified, prog, before, mem, fault, opened, hist, aux>>

\* the probe c is about to be called: by its own process, or by main
Calling(c) == \/ prog = c /\ pc = "run"
              \/ prog = "main" /\ pc = c

\* where control goes when the probe c returns
Return(c) ==
    IF prog # "main" THEN "exit"
    ELSE IF c = main_checks[Len(main_checks)] THEN "summary"
    ELSE main_checks[(CHOOSE k \in DOMAIN main_checks : main_checks[k] = c) + 1]

\* check_input_validation()
CheckInputValidation ==
    /\ Calling("check_input_validation")
    /\ IF HashtableC \in DOMAIN disk
       THEN /\ out' = out \o civ_output(ReadText(disk[HashtableC]))
            /\ pc' = Return("check_input_validation")
            /\ UNCHANGED fault
       ELSE /\ fault' = "FileNotFoundError"
            /\ pc' = "exit"
            /\ out' = out \o civ_header
    /\ UNCHANGED <<disk, modified, prog, before, mem, opened, hist, aux>>

\* check_compiler_flags()
CheckCompilerFlags ==
    /\ Calling("check_compiler_flags")
    /\ IF CMakeLists \in DOMAIN disk
       THEN /\ out' = out \o ccf_output(ReadText(disk[CMakeLists]))
            /\ pc' = Return("check_compiler_flags")
            /\ UNCHANGED fault
       ELSE /\ fault' = "FileNotFoundError"
            /\ pc' = "exit"
            /\ out' = out \o ccf_header
    /\ UNCHANGED <<disk, modified, prog, before, mem, opened, hist, aux>>

\* check_memory_safety()
CheckMemorySafety ==
    /\ Calling("check_memory_safety")
    /\ IF MemoryC \in DOMAIN disk
       THEN /\ out' = out \o cms_output(ReadText(disk[MemoryC]))
            /\ pc' = Return("check_memory_safety")
            /\ UNCHANGED fault
       ELSE /\ fault' = "FileNotFoundError"
            /\ pc' = "exit"
            /\ out' = out \o cms_header
    /\ UNCHANGED <<disk, modified, prog, before, mem, opened, hist, aux>>

\* check_hashtable_randomization()
CheckHashtableRandomization ==
    /\ Calling("check_hashtable_randomization")
    /\ IF HashtableSeedC \in DOMAIN disk
       THEN /\ out' = out \o chr_output(ReadText(disk[HashtableSeedC]))
            /\ pc' = Return("check_hashtable_randomization")
            /\ UNCHANGED fault
       ELSE /\ fault' = "FileNotFoundError"
            /\ pc' = "exit"
            /\ out' = out \o chr_header
    /\ UNCHANGED <<disk, modified, prog, before, mem, opened, hist, aux>>

\* check_buffer_overflow_protection()
CheckBufferOverflowProtection ==
    /\ Calling("check_buffer_overflow_protection")
    /\ IF StrbufferC \in DOMAIN disk
       THEN /\ out' = out \o cbop_output(ReadText(disk[StrbufferC]))
            /\ pc' = Return("check_buffer_overflow_protection")
            /\ UNCHANGED fault
       ELSE /\ fault' = "FileNotFoundError"
            /\ pc' = "exit"
            /\ out' = out \o cbop_header
    /\ UNCHANGED <<disk, modified, prog, before, mem, opened, hist, aux>>

\* python3 reproduce_issues_fixed.py: main() up to its first probe
StartMain ==
    /\ pc = "idle"
    /\ Len(hist) < MaxRuns
    /\ prog' = "main"
    /\ out' = main_banner
    /\ pc' = main_checks[1]
    /\ UNCHANGED <<disk, modified, before, mem, fault, opened, hist, aux>>

\* main() after its last probe
MainSummary ==
    /\ prog = "main"
    /\ pc = "summary"
    /\ out' = out \o main_summary
    /\ pc' = "exit"
    /\ UNCHANGED <<disk, modified, prog, before, mem, fault, opened, hist, aux>>

\* the bytes of the running script's file, "" when it has none
After == IF Target(prog) \in DOMAIN disk THEN disk[Target(prog)] ELSE ""

\* the test called name is about to be called: on its own, or by main
Testing(name) == \/ prog = name /\ pc = "run"
                 \/ prog = "test_analysis.main" /\ pc = name

\* the test called name has ended with result: inside main the loop body
\* goes on; called on its own, an exception goes up to the caller
TestDone(name, result) ==
    /\ calls' = Append(calls, [test |-> name, ret |-> result.ret])
    /\ IF prog = "test_analysis.main"
       THEN /\ out' = out \o tam_body_lines(result)
            /\ passed' = tam_passed(passed, result.ret)
            /\ pc' = tam_after(name, result.ret)
            /\ UNCHANGED fault
       ELSE /\ out' = out \o result.lines
            /\ fault' = IF result.ret = "raise" THEN "FileNotFoundError" ELSE fault
            /\ pc' = "exit"
            /\ UNCHANGED passed

\* what grep can give back for each pattern: no match (status 1), an error
\* (status 2), or matching lines (status 0)
GrepOf(lines) == [rc |-> 0, stdout |-> Concat([k \in DOMAIN lines |-> lines[k] \o "\n"])]
GrepNone == [rc |-> 1, stdout |-> ""]
GrepError == [rc |-> 2, stdout |-> ""]

GrepRuns(pattern) ==
    CASE pattern = "strcpy" ->
            {GrepNone, GrepOf(<<"src/dtoa.c:    strcpy(buf, s);">>),
             GrepOf(<<"src/dtoa.c:    strcpy(buf, s);", "src/dump.c:    strcpy(buf, s);">>)}
      [] pattern = "strcat" -> {GrepNone, GrepOf(<<"src/load.c:    strcat(buf, s);">>)}
      [] pattern = "gets" -> {GrepError, GrepOf(<<"src/load.c:    gets(buf);">>)}
      [] pattern = "sprintf" ->
            {GrepNone,
             GrepOf(<<"src/strbuffer.c:    json_sprintf(buf, fmt);",
                      "src/strconv.c:    exp_len = sprintf(p, \"%d\", exp);">>),
             GrepOf(<<"src/load.c:    x = 1; /* sprintf */  ",
                      "src/dump.c:    sprintf(buf, \"%s\", s);">>),
             GrepOf(<<"src/dump.c:    /* sprintf */ sprintf(buf, \"%s\", s);">>)}
      [] pattern = "sizeof" ->
            {GrepNone,
             GrepOf(<<"src/hashtable.c:    t = jsonp_malloc(new_size * sizeof(bucket_t));",
                      "src/value.c:    n = count * sizeof(int);">>),
             GrepOf(<<"src/value.c:    p = jsonp_malloc(count * sizeof(int));",
                      "src/hashtable.c:    t = jsonp_malloc(new_size * sizeof(bucket_t));",
                      "src/load.c:    q = jsonp_malloc(len * sizeof(char));">>)}

\* test_build_system() is entered: its first print, then cmake --version
\* is started
RunTestBuildSystem ==
    /\ Testing("test_build_system")
    /\ out' = Append(out, "Testing build system...")
    /\ pc' = "cmake.version"
    /\ UNCHANGED <<disk, modified, prog, before, mem, fault, opened, hist, aux>>

\* the test is inside test_build_system, at the step called step
Building(step) ==
    prog \in {"test_build_system", "test_analysis.main"} /\ pc = step

\* cmake --version returns, or cannot be started
TbsVersion ==
    /\ Building("cmake.version")
    /\ \E cmake \in CmakeRuns :
          IF cmake.kind \in {"missing", "version_fails"}
          THEN TestDone("test_build_system", AfterHead(test_build_system(cmake)))
          ELSE /\ pc' = "cmake_test.write"
               /\ UNCHANGED <<out, fault, calls, passed>>
    /\ UNCHANGED <<disk, modified, prog, before, mem, opened, hist, arg, rc, issues,
                   project_path, analysis_data, listing>>

\* os.makedirs and the two files written
TbsWriteFiles ==
    /\ Building("cmake_test.write")
    /\ \E cmake \in CmakeRuns :
          /\ cmake.kind \in {"makedirs_raises", "ok"}
          /\ IF cmake.kind = "makedirs_raises"
             THEN /\ TestDone("test_build_system",
                              AfterHead(test_build_system(cmake)))
                  /\ UNCHANGED <<disk, modified>>
             ELSE /\ disk' = tbs_written(disk)
                  /\ modified' = modified \cup DOMAIN CmakeTestFiles
                  /\ pc' = "cmake_test.configure"
                  /\ UNCHANGED <<out, fault, calls, passed>>
    /\ UNCHANGED <<prog, before, mem, opened, hist, arg, rc, issues, project_path,
                   analysis_data, listing>>

\* cmake -S cmake_test -B cmake_test/build, from its start to its return
TbsConfigure ==
    /\ Building("cmake_test.configure")
    /\ \E cmake \in CmakeRuns : \E built \in CmakeBuilt :
          /\ cmake.kind \in {"configure_fails", "ok"}
          /\ disk' = tbs_configured(disk, built)
          /\ modified' = modified \cup DOMAIN built
          /\ IF cmake.kind = "configure_fails"
             THEN TestDone("test_build_system", AfterHead(test_build_system(cmake)))
             ELSE /\ pc' = "cmake_test.rmtree"
                  /\ UNCHANGED <<out, fault, calls, passed>>
    /\ UNCHANGED <<prog, before, mem, opened, hist, arg, rc, issues, project_path,
                   analysis_data, listing>>

\* shutil.rmtree and the last print
TbsCleanUp ==
    /\ Building("cmake_test.rmtree")
    /\ disk' = tbs_removed(disk)
    /\ modified' = modified \cap DOMAIN tbs_removed(disk)
    /\ TestDone("test_build_system",
                AfterHead(test_build_system([kind |-> "ok", stderr |-> ""])))
    /\ UNCHANGED <<prog, before, mem, opened, hist, arg, rc, issues, project_path,
                   analysis_data, listing>>

\* test_security_flags()
RunTestSecurityFlags ==
    /\ Testing("test_security_flags")
    /\ TestDone("test_security_flags", test_security_flags(disk))
    /\ UNCHANGED <<disk, modified, prog, before, mem, opened, hist, arg, rc, issues,
                   project_path, analysis_data, listing>>

\* test_vulnerable_patterns() is entered: its first print, then its first
\* grep is started
RunTestVulnerablePatterns ==
    /\ Testing("test_vulnerable_patterns")
    /\ out' = Append(out, "Testing for vulnerable code patterns...")
    /\ pc' = "grep." \o tvp_greps[1]
    /\ UNCHANGED <<disk, modified, prog, before, mem, fault, opened, hist, aux>>

\* the grep of tvp_greps[k] returns grep = [rc, stdout], or cannot be
\* started: the test ends there, or starts its next grep
TvpGrep(k, installed, grep) ==
    /\ prog \in {"test_vulnerable_patterns", "test_analysis.main"}
    /\ pc = "grep." \o tvp_greps[k]
    /\ LET end == tvp_after_grep(k, grep)
       IN  IF ~installed
           THEN TestDone("test_vulnerable_patterns",
                         Raised(<<>>, NoSuchFile("grep")))
           ELSE IF end # <<>>
           THEN TestDone("test_vulnerable_patterns", end[1])
           ELSE /\ pc' = "grep." \o tvp_greps[k + 1]
                /\ UNCHANGED <<out, fault, calls, passed>>
    /\ UNCHANGED <<disk, modified, prog, before, mem, opened, hist, arg, rc, issues,
                   project_path, analysis_data, listing>>

\* python3 test_analysis.py: main() up to its first test
StartTests ==
    /\ pc = "idle"
    /\ Len(hist) < MaxTestRuns
    /\ prog' = "test_analysis.main"
    /\ out' = tam_banner
    /\ pc' = tam_tests[1]
    /\ UNCHANGED <<disk, modified, before, mem, fault, opened, hist, aux>>

\* main() after the loop: the results and the value given to sys.exit
TestsResults ==
    /\ prog = "test_analysis.main"
    /\ pc = "results"
    /\ out' = out \o tam_results(passed, Len(tam_tests))
    /\ rc' = tam_status(passed, Len(tam_tests))
    /\ pc' = "exit"
    /\ UNCHANGED <<disk, modified, prog, before, mem, fault, opened, hist, arg, calls, passed,
                   issues, project_path, analysis_data, listing>>

\* analyze_c_file(path) is called
StartAnalyze(path) ==
    /\ pc = "idle"
    /\ Len(hist) < MaxRoundRuns
    /\ prog' = "analyze_c_file"
    /\ arg' = path
    /\ before' = IF path \in DOMAIN disk THEN disk[path] ELSE ""
    /\ pc' = "run"
    /\ UNCHANGED <<disk, modified, mem, out, fault, opened, hist, rc, calls, passed, issues,
                   project_path, analysis_data, listing>>

\* analyze_c_file from open() to return issues
AnalyzeCFile ==
    /\ prog = "analyze_c_file"
    /\ pc = "run"
    /\ issues' = analyze_c_file(disk, arg)
    /\ pc' = "exit"
    /\ UNCHANGED <<disk, modified, prog, before, mem, out, fault, opened, hist, arg, rc, calls,
                   passed, project_path, analysis_data, listing>>

\* an exception nobody catches ends the interpreter with status 1
ExitStatus == IF fault # "none" THEN 1 ELSE rc

\* the process ends; what it did is kept for the properties below
Exit ==
    /\ pc = "exit"
    /\ hist' = Append(hist, [prog |-> prog, before |-> before,
                             after |-> After, out |-> out,
                             fault |-> fault, opened |-> opened,
                             arg |-> arg, rc |-> ExitStatus, calls |-> calls,
                             issues |-> issues])
    /\ prog' = "none"
    /\ pc' = "idle"
    /\ before' = ""
    /\ mem' = ""
    /\ out' = <<>>
    /\ fault' = "none"
    /\ opened' = FALSE
    /\ arg' = ""
    /\ rc' = 0
    /\ calls' = <<>>
    /\ passed' = 0
    /\ issues' = <<>>
    /\ UNCHANGED <<disk, modified, project_path, analysis_data, listing>>

Next ==
    \/ \E p \in Programs : Start(p)
    \/ Patch1Compute
    \/ Patch2Compute
    \/ Patch3Locate
    \/ Patch32Compute
    \/ Patch5Compute
    \/ OpenForWrite
    \/ WriteAndClose
    \/ PrintStatus
    \/ CheckInputValidation
    \/ Exit

Spec == Init /\ [][Next]_vars

(***************************************************************************)
(* The verification driver over a whole source tree.                       *)
(***************************************************************************)

SeedFunction == "uint32_t hashtable_seed = 0;\n"

\* each file of the tree: as shipped, patched, or (hashtable.c) half patched
TreeContents(path) ==
    CASE path = CMakeLists -> {MsvcBlock, p1_new_content(MsvcBlock)}
      [] path = MemoryC -> {old_function \o "\n", new_function \o "\n"}
      [] path = HashtableSeedC -> {SeedFunction, "volatile " \o SeedFunction}
      [] path = StrbufferC -> {old_start \o "\n", new_start \o "\n"}
      [] path = HashtableC ->
            {old_hashtable_set \o "\n\n" \o old_hashtable_get \o "\n",
             new_hashtable_set \o "\n\n" \o old_hashtable_get \o "\n",
             new_hashtable_set \o "\n\n" \o new_hashtable_get \o "\n"}

TreePaths == Paths \cup {HashtableSeedC}

\* the trees with every file there
FullTrees ==
    {(CMakeLists :> a) @@ (MemoryC :> b) @@ (HashtableSeedC :> c)
        @@ (StrbufferC :> d) @@ (HashtableC :> e) :
        a \in TreeContents(CMakeLists), b \in TreeContents(MemoryC),
        c \in TreeContents(HashtableSeedC), d \in TreeContents(StrbufferC),
        e \in TreeContents(HashtableC)}

\* the trees: every file there, or one of them missing
Trees ==
    FullTrees \cup {[path \in DOMAIN t \ {gone} |-> t[path]] :
                       t \in FullTrees, gone \in TreePaths}

InitTree ==
    /\ disk \in Trees
    /\ listing \in Listings(disk)
    /\ NoProcess

NextVerify ==
    \/ StartMain
    \/ CheckCompilerFlags
    \/ CheckMemorySafety
    \/ CheckHashtableRandomization
    \/ CheckBufferOverflowProtection
    \/ CheckInputValidation
    \/ MainSummary
    \/ Exit

SpecVerify == InitTree /\ [][NextVerify]_vars

(***************************************************************************)
(* Scan, patch and verify one file: the patch tools, the probes,           *)
(* test_security_flags and analyze_c_file in any order.                    *)
(***************************************************************************)

Include == "#include <stdlib.h>\n"

PieLine == "add_link_options( \"-pie\" )\n"

\* each file as shipped (with LF or CRLF line ends), without the anchor,
\* patched, and for hashtable.c with only one of the three functions
RoundContents(path) ==
    CASE path = CMakeLists ->
            {MsvcBlock, Crlf(MsvcBlock), "project(jansson C)\n",
             MsvcBlock \o PieLine}
      [] path = MemoryC ->
            {Include \o old_function \o "\n", Crlf(Include \o old_function \o "\n"),
             Include, new_function \o "\n"}
      [] path = HashtableSeedC -> {SeedFunction, "volatile " \o SeedFunction}
      [] path = StrbufferC ->
            {Include \o old_start \o "\n" \o PopFunction,
             Crlf(Include \o old_start \o "\n"),
             Include \o PopFunction, new_start \o "\n"}
      [] path = HashtableC ->
            {old_hashtable_set \o "\n\n" \o old_hashtable_get
                 \o "\n\n" \o old_hashtable_del \o "\n",
             Crlf(old_hashtable_set \o "\n\n" \o old_hashtable_get
                      \o "\n\n" \o old_hashtable_del \o "\n"),
             Include \o old_hashtable_get \o "\n",
             new_hashtable_set \o "\n\n" \o new_hashtable_get
                 \o "\n\n" \o new_hashtable_del \o "\n"}

InitRound ==
    /\ \E path \in TreePaths : \E c \in RoundContents(path) : disk = (path :> c)
    /\ listing \in Listings(disk)
    /\ NoProcess

RoundPrograms == PatchTools \cup Checks \cup {"test_security_flags"}

NextRound ==
    \/ \E p \in RoundPrograms : StartWithin(p, MaxRoundRuns)
    \/ \E path \in DOMAIN disk \ {CMakeLists} : StartAnalyze(path)
    \/ Patch1Compute
    \/ Patch2Compute
    \/ Patch3Locate
    \/ Patch32Compute
    \/ Patch5Compute
    \/ OpenForWrite
    \/ WriteAndClose
    \/ PrintStatus
    \/ CheckCompilerFlags
    \/ CheckMemorySafety
    \/ CheckHashtableRandomization
    \/ CheckBufferOverflowProtection
    \/ CheckInputValidation
    \/ RunTestSecurityFlags
    \/ AnalyzeCFile
    \/ Exit

SpecRound == InitRound /\ [][NextRound]_vars

(***************************************************************************)
(* The scanner on one C file of up to MaxScanLines lines.                  *)
(***************************************************************************)

ScanLines == {
    "    json_sprintf(buf, fmt);",
    "    snprintf(buf, n, fmt);",
    "    sprintf(buf, fmt);",
    "    strcpy(a, b);",
    "    p = malloc(n);",
    "    free(p);",
    "    size_t n = a * b;",
    "    fgets(buf, n, f);",
    "    return 0;"
}

DumpC == "src/dump.c"
MissingC == "src/missing.c"

\* the texts of n lines, each ended by "\n"
RECURSIVE ScanTexts(_)
ScanTexts(n) ==
    IF n = 0 THEN {""}
    ELSE {t \o line \o "\n" : t \in ScanTexts(n - 1), line \in ScanLines}

InitScan ==
    /\ \E n \in 0..MaxScanLines : \E c \in ScanTexts(n) : disk = (DumpC :> c)
    /\ listing \in Listings(disk)
    /\ NoProcess

NextScan ==
    \/ \E path \in {DumpC, MissingC} : StartAnalyze(path)
    \/ AnalyzeCFile
    \/ Exit

SpecScan == InitScan /\ [][NextScan]_vars

(***************************************************************************)
(* test_analysis.py in a directory with or without a CMakeLists.txt.       *)
(***************************************************************************)

InitTests ==
    /\ disk \in {[path \in {} |-> ""],
                 [path \in {CMakeLists, "cmake_test/keep.txt"} |->
                     IF path = CMakeLists THEN MsvcBlock ELSE "kept\n"]}
                \cup {(CMakeLists :> c) :
                         c \in {MsvcBlock, p1_new_content(MsvcBlock),
                                p1_new_content(MsvcBlock) \o "\n" \o PieLine}}
    /\ listing \in Listings(disk)
    /\ NoProcess

NextTests ==
    \/ StartTests
    \/ RunTestBuildSystem
    \/ TbsVersion
    \/ TbsWriteFiles
    \/ TbsConfigure
    \/ TbsCleanUp
    \/ RunTestSecurityFlags
    \/ RunTestVulnerablePatterns
    \/ \E k \in DOMAIN tvp_greps, installed \in BOOLEAN :
          \E grep \in GrepRuns(tvp_greps[k]) : TvpGrep(k, installed, grep)
    \/ TestsResults
    \/ Exit

SpecTests == InitTests /\ [][NextTests]_vars

(***************************************************************************)
(* code_analyzer.py: the paths, the directory walks and the regular        *)
(* expressions JanssonAnalyzer uses.  A directory exists when a file lies  *)
(* under it; the working directory "." always exists.                      *)
(***************************************************************************)

MaxReportRuns == 1   \* executions of run_analysis in one behaviour

\* Path(p) / rel, as a path relative to the working directory
PathJoin(p, rel) == IF p = "." THEN rel ELSE p \o "/" \o rel

\* Path(path).exists()
Exists(files, path) ==
    \/ path = "."
    \/ path \in DOMAIN files
    \/ \E f \in DOMAIN files : StartsWith(f, path \o "/")

\* the files below the directory top
Below(files, top) ==
    IF top = "." THEN DOMAIN files
    ELSE {f \in DOMAIN files : StartsWith(f, top \o "/")}

\* the directory of f, relative to top
RelDir(top, f) ==
    IF top = "." THEN Dirname(f)
    ELSE SubSeq(Dirname(f), Len(top) + 2, Len(Dirname(f)))

\* a directory between top and f has a name that starts with "."
UnderHidden(top, f) ==
    LET d == RelDir(top, f)
    IN  d # "" /\ (StartsWith(d, ".") \/ Occurs("/.", d))

\* the root os.walk(top) reports for the directory of f
WalkRoot(top, f) ==
    IF top = "." THEN (IF Dirname(f) = "" THEN "." ELSE "./" \o Dirname(f))
    ELSE Dirname(f)

UpperCase == "ABCDEFGHIJKLMNOPQRSTUVWXYZ"
LowerCase == "abcdefghijklmnopqrstuvwxyz"

\* the lower-case letter of each upper-case letter
ToLower == [c \in {SubSeq(UpperCase, k, k) : k \in 1..26} |->
               LET k == CHOOSE k \in 1..26 : SubSeq(UpperCase, k, k) = c
               IN  SubSeq(LowerCase, k, k)]

\* s.lower(), on ASCII
Lower(s) ==
    Concat([i \in 1..Len(s) |->
        LET c == SubSeq(s, i, i)
        IN  IF c \in DOMAIN ToLower THEN ToLower[c] ELSE c])

\* file.split('.')[-1] if '.' in file else ''
Extension(file) ==
    LET S == Hits(file, ".")
    IN  IF S = {} THEN ""
        ELSE SubSeq(file, (CHOOSE i \in S : \A j \in S : j <= i) + 1, Len(file))

\* the ASCII characters \w and \s match
WordChars ==
    {SubSeq(LowerCase \o UpperCase \o "0123456789_", i, i) : i \in 1..63}
SpaceChars == Whitespace

\* The regular expressions are sequences of atoms: a literal, one or more
\* or zero or more characters of a class, zero or more characters outside a
\* class.  No atom of the expressions below can begin with a character the
\* class before it accepts, so the greedy match is the only match.
Lit(text) == [t |-> "lit", v |-> text]
Plus(class) == [t |-> "plus", v |-> class]
Star(class) == [t |-> "star", v |-> class]
StarNot(class) == [t |-> "starnot", v |-> class]

\* the first index >= i of s whose character the atom does not accept
RunEnd(s, i, atom) ==
    LET ok(m) == IF atom.t = "starnot" THEN SubSeq(s, m, m) \notin atom.v
                 ELSE SubSeq(s, m, m) \in atom.v
    IN  CHOOSE j \in i..(Len(s) + 1) :
            /\ \A m \in i..(j - 1) : ok(m)
            /\ j = Len(s) + 1 \/ ~ok(j)

\* the index after the match of atoms[k..] at index i of s, 0 if none
RECURSIVE MatchEnd(_, _, _, _)
MatchEnd(s, i, atoms, k) ==
    IF k > Len(atoms) THEN i
    ELSE LET a == atoms[k]
         IN  IF a.t = "lit"
             THEN IF At(s, a.v, i) THEN MatchEnd(s, i + Len(a.v), atoms, k + 1)
                  ELSE 0
             ELSE LET j == RunEnd(s, i, a)
                  IN  IF a.t = "plus" /\ j = i THEN 0
                      ELSE MatchEnd(s, j, atoms, k + 1)

\* ^ under re.MULTILINE
LineStart(s, i) == i = 1 \/ SubSeq(s, i - 1, i - 1) = "\n"

\* re.findall: the matches <<start, end + 1>>, left to right, not overlapping;
\* starts holds every index at which the expression matches
RECURSIVE FindAllFrom(_, _, _, _)
FindAllFrom(s, atoms, starts, from) ==
    LET i == NextHit(starts, from)
    IN  IF i = 0 THEN <<>>
        ELSE LET e == MatchEnd(s, i, atoms, 1)
             IN  <<<<i, e>>>> \o FindAllFrom(s, atoms, starts, e)

FindAll(s, atoms, anchored) ==
    FindAllFrom(s, atoms,
                {i \in 1..Len(s) : /\ anchored => LineStart(s, i)
                                   /\ MatchEnd(s, i, atoms, 1) # 0},
                1)

\* text.splitlines() of text read in text mode: the lines without their
\* terminators ("\n", "\f", VT, FS, GS, RS; "\r\n" and "\r" where a text
\* still has them)
splitlines(text) ==
    LET ends == Ascending({i \in 1..Len(text) :
                              \/ SubSeq(text, i, i) \in {"\n", "\f", VT, FS, GS, RS}
                              \/ SubSeq(text, i, i) = "\r" /\ ~At(text, "\n", i + 1)},
                          1, Len(text))
        n == IF Len(ends) > 0 /\ ends[Len(ends)] = Len(text) THEN Len(ends)
             ELSE IF Len(text) = 0 THEN 0 ELSE Len(ends) + 1
    IN  [k \in 1..n |->
            LET lo == IF k = 1 THEN 1 ELSE ends[k - 1] + 1
                hi == IF k > Len(ends) THEN Len(text) ELSE ends[k] - 1
            IN  SubSeq(text, lo,
                       IF hi >= lo /\ k <= Len(ends) /\ SubSeq(text, hi, hi) = "\r"
                       THEN hi - 1 ELSE hi)]

\* d.get(key, default)
Get(d, key, default) == IF key \in DOMAIN d THEN d[key] ELSE default

\* d[key] = value
Put(d, key, value) ==
    [k \in DOMAIN d \cup {key} |-> IF k = key THEN value ELSE d[k]]

(***************************************************************************)
(* code_analyzer.py: JanssonAnalyzer.                                      *)
(***************************************************************************)

\* analyze_project_structure: the counter a walked file adds to, "" if none
structure_category(root, file) ==
    LET ext == Extension(file)
    IN  IF ext = "c" THEN "c_files"
        ELSE IF ext \in {"h", "hpp"} THEN "header_files"
        ELSE IF Occurs("test", Lower(file)) \/ Occurs("test", Lower(root))
             THEN "test_files"
        ELSE IF ext \in {"md", "rst", "txt"} THEN "documentation_files"
        ELSE IF ext \in {"am", "ac", "cmake", "mk"} THEN "build_files"
        ELSE ""

\* analyze_project_structure: os.walk yields nothing for a path that does
\* not exist and does not descend into directories whose name starts with "."
analyze_project_structure(files, path) ==
    LET walked == {f \in Below(files, path) : ~UnderHidden(path, f)}
        category == [f \in walked |->
                        structure_category(WalkRoot(path, f), Basename(f))]
        count(c) == Cardinality({f \in walked : category[f] = c})
    IN  [total_files |-> Cardinality(walked),
         c_files |-> count("c_files"),
         header_files |-> count("header_files"),
         test_files |-> count("test_files"),
         documentation_files |-> count("documentation_files"),
         build_files |-> count("build_files"),
         directories |-> <<>>]

\* src_path.glob("*.c"): the entries matched, in the order the directory
\* lists them; order holds the C files of the tree in that order
glob_c(files, dir, order) ==
    SelectSeq(order, LAMBDA f : /\ f \in DOMAIN files
                                /\ Dirname(f) = dir
                                /\ EndsWith(Basename(f), ".c"))

re_api == <<Plus(WordChars), Plus(SpaceChars), Plus(WordChars), Star(SpaceChars),
            Lit("("), StarNot({")"}), Lit(")")>>
re_function == re_api \o <<Star(SpaceChars), Lit("{")>>
re_struct == <<Lit("struct"), Plus(SpaceChars), Plus(WordChars), Star(SpaceChars),
               Lit("{")>>
re_enum == <<Lit("enum"), Plus(SpaceChars), Plus(WordChars), Star(SpaceChars),
             Lit("{")>>
re_define == <<Lit("#define"), Plus(SpaceChars), Plus(WordChars)>>
re_find_package == <<Lit("find_package("), Plus(WordChars)>>

\* open(path, 'r', encoding='utf-8', errors='ignore').read(), on ASCII
ReadIgnoring(bytes) == ReadText(bytes)

\* analyze_source_code: what jansson.h adds
asc_header(content) ==
    LET found == FindAll(content, re_api, TRUE)
        texts == [k \in DOMAIN found |->
                     SubSeq(content, found[k][1], found[k][2] - 1)]
        keep == {k \in DOMAIN texts : Occurs("json_", texts[k])}
        kept == Ascending(keep, 1, Len(texts))
    IN  [total_lines |-> Len(splitlines(content)),
         api_functions |-> [i \in DOMAIN kept |-> Strip(texts[kept[i]])],
         security_patterns |->
             IF Occurs("malloc", content) \/ Occurs("calloc", content)
             THEN <<"Memory allocation found in headers">> ELSE <<>>,
         error_handling |->
             IF Occurs("json_error_t", content)
             THEN <<"Structured error handling with json_error_t">> ELSE <<>>]

\* analyze_source_code: what one C file adds
asc_source(content, name) ==
    [total_lines |-> Len(splitlines(content)),
     functions |-> Len(FindAll(content, re_function, TRUE)),
     structs |-> Len(FindAll(content, re_struct, FALSE)),
     enums |-> Len(FindAll(content, re_enum, FALSE)),
     macros |-> Len(FindAll(content, re_define, TRUE)),
     security_patterns |->
        (IF Occurs("strcpy", content) \/ Occurs("strcat", content)
         THEN <<"Unsafe string functions found in " \o name>> ELSE <<>>)
        \o (IF Occurs("sprintf", content) /\ ~Occurs("snprintf", content)
            THEN <<"Potentially unsafe formatting in " \o name>> ELSE <<>>)
        \o (IF (Occurs("malloc", content) \/ Occurs("calloc", content))
               /\ ~Occurs("free", content)
            THEN <<"Potential memory leaks in " \o name>> ELSE <<>>)]

\* analyze_source_code: the counters after one more file, or run of files
asc_add(analysis, one) ==
    [analysis EXCEPT
        !.total_lines = @ + one.total_lines,
        !.functions = @ + one.functions,
        !.structs = @ + one.structs,
        !.enums = @ + one.enums,
        !.macros = @ + one.macros,
        !.security_patterns = @ \o one.security_patterns]

\* analyze_source_code: what the loop over c_files adds for the files
\* lo..hi, taken in their order (the counters are sums and the list grows
\* at its end, so the files are taken by halves)
RECURSIVE asc_sources(_, _, _, _)
asc_sources(files, c_files, lo, hi) ==
    IF lo > hi
    THEN [total_lines |-> 0, functions |-> 0, structs |-> 0, enums |-> 0,
          macros |-> 0, security_patterns |-> <<>>]
    ELSE IF lo = hi
    THEN asc_source(ReadIgnoring(files[c_files[lo]]), Basename(c_files[lo]))
    ELSE LET mid == (lo + hi) \div 2
         IN  asc_add(asc_sources(files, c_files, lo, mid),
                     asc_sources(files, c_files, mid + 1, hi))

\* analyze_source_code, when the src directory exists
analyze_source_code(files, path, order) ==
    LET src_path == PathJoin(path, "src")
        h == src_path \o "/jansson.h"
        none == [total_lines |-> 0, api_functions |-> <<>>,
                 security_patterns |-> <<>>, error_handling |-> <<>>]
        header == IF h \in DOMAIN files THEN asc_header(ReadIgnoring(files[h]))
                  ELSE none
        c_files == glob_c(files, src_path, order)
    IN  asc_add([total_lines |-> header.total_lines,
                 functions |-> 0, structs |-> 0, enums |-> 0, macros |-> 0,
                 api_functions |-> header.api_functions,
                 security_patterns |-> header.security_patterns,
                 error_handling |-> header.error_handling],
                asc_sources(files, c_files, 1, Len(c_files)))

\* analyze_build_system
analyze_build_system(files, path) ==
    LET has(name) == Exists(files, PathJoin(path, name))
        cmake_file == PathJoin(path, "CMakeLists.txt")
        content == ReadText(files[cmake_file])
        found == FindAll(content, re_find_package, FALSE)
    IN  [build_systems |->
            (IF has("CMakeLists.txt") THEN <<"CMake">> ELSE <<>>)
            \o (IF has("configure.ac") THEN <<"Autotools">> ELSE <<>>)
            \o (IF has("Makefile.am") THEN <<"Automake">> ELSE <<>>)
            \o (IF has("Android.mk") THEN <<"Android NDK">> ELSE <<>>),
         dependencies |->
            IF cmake_file \in DOMAIN files /\ Occurs("find_package", content)
            THEN [k \in DOMAIN found |->
                     SubSeq(content, found[k][1] + Len("find_package("),
                            found[k][2] - 1)]
            ELSE <<>>,
         platforms |-> <<"Linux", "Windows", "macOS", "Android">>,
         compilers |-> <<"GCC", "Clang", "MSVC">>]

\* analyze_tests
analyze_tests(files, path) ==
    LET test_path == PathJoin(path, "test")
        there == Exists(files, test_path)
    IN  [test_files |->
            IF there
            THEN Cardinality({f \in Below(files, test_path) :
                    /\ EndsWith(Basename(f), ".c")
                    /\ Occurs("test", Lower(Basename(f)))})
            ELSE 0,
         test_frameworks |->
            IF there /\ Exists(files, test_path \o "/scripts/run-tests.sh")
            THEN <<"Custom shell-based">> ELSE <<>>,
         test_coverage |-> "Unknown",
         test_types |->
            IF there THEN <<"Unit tests", "API tests", "Integration tests">>
            ELSE <<>>]

\* generate_story: str() of a count, 0 when its analysis or key is missing
gs_count_unset(data, analysis, key) ==
    IF analysis \in DOMAIN data THEN ToString(Get(data[analysis], key, 0)) ELSE "None"

gs_count(data, analysis, key) == ToString(Get(Get(data, analysis, <<>>), key, 0))

\* generate_story: len() of a list, 0 when its analysis or key is missing
gs_len(data, analysis, key) == ToString(Len(Get(Get(data, analysis, <<>>), key, <<>>)))

\* generate_story: the lines under "Potential Concerns"
gs_concerns(data) ==
    LET patterns == Get(Get(data, "source_analysis", <<>>), "security_patterns", <<>>)
    IN  IF Len(patterns) > 0
        THEN Join([k \in DOMAIN patterns |-> "- " \o patterns[k]])
        ELSE "- No major security concerns identified"

\* generate_story: the f-string, line by line (its em dash is
\* written "--" and its backquotes "'"); now is datetime.now() as strftime formats it
generate_story(data, now) ==
    Join(<<
        "# Jansson JSON Library: A Comprehensive Code Analysis",
        "",
        "## 1. Project Context & Overview",
        "",
        "Jansson stands as a testament to elegant C library design--a lightweight, robust JSON parsing and manipulation library that has become a cornerstone in the C ecosystem. Born from the need for simple yet powerful JSON handling in C applications, this project delivers exactly what it promises: a comprehensive JSON toolkit without the burden of external dependencies.",
        "",
        "The library's philosophy centers on simplicity and reliability. With its intuitive API design, developers can seamlessly encode, decode, and manipulate JSON data structures without wrestling with complex abstractions. The project's commitment to UTF-8 support ensures global compatibility, while its MIT license makes it accessible to both open-source and commercial projects alike.",
        "",
        "## 2. Problem Statement",
        "",
        "In the C programming world, JSON handling has historically been a pain point. Developers faced a stark choice: use bloated libraries with heavy dependencies, or write custom parsers that were often buggy and insecure. Jansson solves this dilemma by providing:",
        "",
        "- **Memory Safety**: Robust memory management that prevents leaks and buffer overflows",
        "- **Unicode Support**: Full UTF-8 compatibility for international applications  ",
        "- **Zero Dependencies**: A self-contained library that doesn't bloat your project",
        "- **Developer Experience**: An intuitive API that makes JSON manipulation feel natural in C",
        "",
        "The library addresses the critical need for reliable JSON processing in systems programming, embedded development, and high-performance applications where every byte and CPU cycle matters.",
        "",
        "## 3. Architecture & Structure",
        "",
        "The codebase exhibits exceptional architectural clarity, organized into distinct functional modules:",
        "",
        "### Core Components",
        "- **Value System** ('value.c'): The heart of the library, implementing JSON value types",
        "- **Parser Engine** ('load.c'): Sophisticated JSON parsing with comprehensive error reporting",
        "- **Serializer** ('dump.c'): Efficient JSON generation with customizable formatting",
        "- **Hash Table** ('hashtable.c'): High-performance hash table implementation for objects",
        "- **String Utilities** ('strconv.c', 'utf.c'): Robust string conversion and Unicode handling",
        "",
        "### Architecture Philosophy",
        "The code follows a layered architecture where each module has clear responsibilities:",
        "- **API Layer**: Clean, consistent function naming with 'json_' prefix",
        "- **Core Logic**: Type-safe operations on JSON values",
        "- **Utility Layer**: Memory management, string handling, and error reporting",
        "- **Platform Layer**: Cross-platform compatibility abstractions",
        "",
        "With " \o gs_count(data, "structure", "total_files") \o " total files and " \o gs_count(data, "structure", "c_files") \o " C implementation files, the project maintains remarkable cohesion while keeping complexity manageable.",
        "",
        "## 4. Technology Stack",
        "",
        "Jansson leverages proven C technologies while maintaining broad compatibility:",
        "",
        "### Core Technologies",
        "- **Language**: ANSI C (C89/C90) for maximum portability",
        "- **Build Systems**: CMake and Autotools for flexible compilation",
        "- **Testing**: Custom test harness with comprehensive coverage",
        "- **Documentation**: Sphinx-based documentation generation",
        "",
        "### Platform Support",
        "The library supports an impressive array of platforms:",
        "- **Operating Systems**: Linux, Windows, macOS, Android",
        "- **Compilers**: GCC, Clang, MSVC",
        "- **Architectures**: x86, x86_64, ARM, and embedded systems",
        "",
        "### Dependencies",
        "True to its design philosophy, Jansson maintains zero external dependencies. The only requirements are:",
        "- Standard C library",
        "- Math library (optional, for number operations)",
        "",
        "## 5. Key Features & Capabilities",
        "",
        "Jansson delivers a comprehensive JSON toolkit with " \o gs_len(data, "source_analysis", "api_functions") \o " public API functions:",
        "",
        "### Core Capabilities",
        "- **Parsing**: Robust JSON parsing with detailed error messages",
        "- **Serialization**: Configurable JSON output with pretty-printing options",
        "- **Manipulation**: In-place JSON value modification and traversal",
        "- **Validation**: Type checking and schema validation support",
        "",
        "### Advanced Features",
        "- **Reference Counting**: Automatic memory management for JSON values",
        "- **Custom Memory Allocators**: Pluggable memory management for embedded systems",
        "- **Incremental Parsing**: Stream processing for large JSON documents",
        "- **Pack/Unpack**: Convenient C struct to JSON conversion utilities",
        "",
        "### Performance Characteristics",
        "- **Memory Efficient**: Minimal overhead per JSON value",
        "- **Fast Parsing**: Optimized parser with minimal allocations",
        "- **Scalable**: Handles documents from bytes to megabytes",
        "",
        "## 6. Security Considerations",
        "",
        "Security analysis reveals a library designed with safety in mind:",
        "",
        "### Security Strengths",
        "- **Memory Management**: Systematic use of reference counting prevents leaks",
        "- **Bounds Checking**: All array and string operations include proper bounds validation",
        "- **Input Validation**: Comprehensive validation of all JSON input",
        "- **Error Handling**: Structured error reporting prevents information leakage",
        "",
        "### Potential Concerns",
        gs_concerns(data),
        "",
        "### Best Practices Observed",
        "- Consistent error handling throughout the codebase",
        "- Safe string operations using length-limited functions",
        "- Proper cleanup in error paths",
        "- Defensive programming against malformed input",
        "",
        "## 7. Development Insights",
        "",
        "The codebase reveals a mature, well-maintained project with excellent development practices:",
        "",
        "### Code Quality Indicators",
        "- **Consistent Style**: Uniform coding style across all " \o gs_count(data, "source_analysis", "total_lines") \o " lines of code",
        "- **Documentation**: Comprehensive API documentation with examples",
        "- **Error Handling**: Systematic error checking and reporting",
        "- **Testing**: " \o gs_count(data, "test_info", "test_files") \o " test files ensuring reliability",
        "",
        "### Development Approach",
        "The project follows a conservative, stability-focused approach:",
        "- **API Stability**: Backward compatibility maintained across versions",
        "- **Incremental Changes**: Careful, tested modifications",
        "- **Community Driven**: Open development with community contributions",
        "- **Standards Compliance**: Adherence to C standards and JSON specifications",
        "",
        "### Maintenance Philosophy",
        "- **Bug Fixes**: Prompt attention to security and stability issues",
        "- **Performance**: Continuous optimization without breaking changes",
        "- **Portability**: Support for legacy systems and embedded platforms",
        "- **Documentation**: Keeping docs synchronized with code changes",
        "",
        "## 8. Quality Assessment",
        "",
        "Overall code quality assessment: **Excellent**",
        "",
        "### Strengths",
        "- **Architecture**: Clean separation of concerns with well-defined modules",
        "- **Maintainability**: Consistent coding style and comprehensive documentation",
        "- **Reliability**: Extensive test coverage and systematic error handling",
        "- **Performance**: Efficient algorithms with minimal overhead",
        "- **Portability**: Broad platform support with conditional compilation",
        "",
        "### Areas for Improvement",
        "- **Modern C**: Could benefit from C99 features where available",
        "- **Static Analysis**: Integration with additional static analysis tools",
        "- **Fuzzing**: Enhanced fuzzing for edge case discovery",
        "- **Benchmarks**: Performance regression testing",
        "",
        "### Code Metrics",
        "- **Function Count**: " \o gs_count(data, "source_analysis", "functions") \o " functions across the codebase",
        "- **API Surface**: " \o gs_len(data, "source_analysis", "api_functions") \o " public API functions",
        "- **Test Coverage**: Comprehensive test suite with " \o gs_count(data, "test_info", "test_files") \o " test files",
        "- **Documentation**: " \o gs_count(data, "structure", "documentation_files") \o " documentation files",
        "",
        "## 9. Developer Recommendations",
        "",
        "### For New Contributors",
        "1. **Start with the API**: Study 'jansson.h' to understand the public interface",
        "2. **Read the Tests**: Test files provide excellent usage examples",
        "3. **Understand Reference Counting**: This is crucial for correct usage",
        "4. **Follow the Style**: Match the existing code style and conventions",
        "5. **Test Thoroughly**: Add tests for any new functionality",
        "",
        "### For Library Users",
        "1. **Check Return Values**: Always verify function return values",
        "2. **Manage References**: Understand when to increment/decrement references",
        "3. **Use Error Handling**: Take advantage of detailed error reporting",
        "4. **Consider Performance**: Use appropriate APIs for your use case",
        "5. **Stay Updated**: Keep up with security updates and new versions",
        "",
        "### Integration Best Practices",
        "- **Memory Management**: Consider custom allocators for embedded systems",
        "- **Error Handling**: Implement proper error handling in your application",
        "- **Thread Safety**: Understand reference counting in multi-threaded contexts",
        "- **Validation**: Validate JSON input before processing",
        "- **Performance Profile**: Benchmark your specific use cases",
        "",
        "### Common Pitfalls to Avoid",
        "- **Memory Leaks**: Always decref JSON values when done",
        "- **Double Free**: Avoid decrefing the same value multiple times",
        "- **Invalid Access**: Don't use values after decrefing them",
        "- **Type Confusion**: Verify JSON types before accessing values",
        "- **Buffer Overflows**: Use length-safe string functions",
        "",
        "---",
        "",
        "*This analysis was generated on " \o now \o " by the Jansson Code Analyzer*"
    >>) \o "\n"

\* run_analysis: what it prints before it writes the story
ra_progress == <<"Analyzing project structure...", "Analyzing source code...",
                 "Analyzing build system...", "Analyzing tests...",
                 "Generating story...">>

\* run_analysis: the file it writes
ra_output_file(path) == PathJoin(path, "PROJECT_STORY.md")

\* run_analysis: self.analysis_data once the four analyses have run
ra_analysis_data(files, path, data, order) ==
    LET d1 == Put(data, "structure", analyze_project_structure(files, path))
        d2 == IF Exists(files, PathJoin(path, "src"))
              THEN Put(d1, "source_analysis",
                       analyze_source_code(files, path, order))
              ELSE d1
        d3 == Put(d2, "build_info", analyze_build_system(files, path))
    IN  Put(d3, "test_info", analyze_tests(files, path))

\* the paths an analyzer is constructed with
ProjectPaths == {".", "/non/existent/path", "test"}

\* the values datetime.now().strftime('%Y-%m-%d %H:%M:%S') takes
Clock == {"2024-05-17 09:30:00", "2026-10-29 12:34:56"}

\* JanssonAnalyzer(path)
NewAnalyzer(path) ==
    /\ project_path' = path
    /\ analysis_data' = <<>>
    /\ prog' = "JanssonAnalyzer"
    /\ mem' = ""
    /\ out' = <<>>
    /\ fault' = "none"
    /\ UNCHANGED <<disk, modified, pc, before, opened, hist, arg, rc, calls, passed, issues,
                   listing>>

\* a method of the analyzer that returns a dictionary and prints nothing
Analysed(method, data) ==
    /\ project_path # ""
    /\ prog' = method
    /\ analysis_data' = data
    /\ mem' = ""
    /\ out' = <<>>
    /\ fault' = "none"
    /\ UNCHANGED <<disk, modified, project_path, listing, pc, before, opened, hist, arg, rc, calls,
                   passed, issues>>

AnalyzeProjectStructure ==
    Analysed("analyze_project_structure",
             Put(analysis_data, "structure",
                 analyze_project_structure(disk, project_path)))

AnalyzeSourceCode ==
    Analysed("analyze_source_code",
             IF Exists(disk, PathJoin(project_path, "src"))
             THEN Put(analysis_data, "source_analysis",
                      analyze_source_code(disk, project_path, listing))
             ELSE analysis_data)

AnalyzeBuildSystem ==
    Analysed("analyze_build_system",
             Put(analysis_data, "build_info",
                 analyze_build_system(disk, project_path)))

AnalyzeTests ==
    Analysed("analyze_tests",
             Put(analysis_data, "test_info", analyze_tests(disk, project_path)))

\* generate_story(): the story is returned, nothing is written
GenerateStory(now) ==
    /\ project_path # ""
    /\ prog' = "generate_story"
    /\ mem' = generate_story(analysis_data, now)
    /\ out' = <<>>
    /\ fault' = "none"
    /\ UNCHANGED <<disk, modified, project_path, analysis_data, listing, pc, before, opened, hist,
                   arg, rc, calls, passed, issues>>

\* run_analysis, from the story on: the file is written and the script ends.
\* open(..., 'w') raises FileNotFoundError when the project directory does
\* not exist, and the script ends with status 1.
ra_write(data, story) ==
    LET output_file == ra_output_file(project_path)
        there == Exists(disk, project_path)
        printed == IF there
                   THEN ra_progress \o
                        <<"Analysis complete! Story written to " \o output_file>>
                   ELSE ra_progress
        raised == IF there THEN "none" ELSE "FileNotFoundError"
    IN  /\ project_path # ""
        /\ Len(hist) < MaxReportRuns
        /\ prog' = "run_analysis"
        /\ analysis_data' = data
        /\ mem' = story
        /\ disk' = IF there THEN Put(disk, output_file, WriteBytes(story)) ELSE disk
        /\ modified' = IF there THEN modified \cup {output_file} ELSE modified
        /\ out' = printed
        /\ fault' = raised
        /\ hist' = Append(hist,
               [prog |-> "run_analysis", before |-> "",
                after |-> IF there THEN WriteBytes(story) ELSE "",
                out |-> printed, fault |-> raised, opened |-> there,
                arg |-> project_path, rc |-> IF there THEN 0 ELSE 1,
                calls |-> <<>>, issues |-> <<>>])
        /\ UNCHANGED <<project_path, listing, pc, before, opened, arg, rc, calls, passed,
                       issues>>

\* run_analysis, from the analyses on
ra_generate(data, now) == ra_write(data, generate_story(data, now))

\* run_analysis(), as the script calls it: the four analyses, the story,
\* the file
RunAnalysis(now) ==
    ra_generate(ra_analysis_data(disk, project_path, analysis_data, listing), now)

(***************************************************************************)
(* The analyzer over a project tree: empty, a few files, a small project.   *)
(***************************************************************************)

story_cmake == "project(jansson C)\nfind_package(Threads)\nfind_package(Sphinx)\n"
story_header ==
    "typedef struct json_error_t {\n    int line;\n} json_error_t;\n"
    \o "json_t *json_object(void);\nint json_array_size(const json_t *array);\n"
    \o "void *jsonp_malloc(size_t size);\n"
story_dump ==
    "#define MAX_DEPTH 8\nstruct buffer {\n    char *data;\n};\n"
    \o "static int dump_string(const char *str)\n{\n    strcpy(out, str);\n"
    \o "    return 0;\n}\nint json_dumpf(json_t *json, FILE *output) {\n"
    \o "    return 0;\n}\n"
story_load ==
    "enum token { TOKEN_EOF };\r\nint load(void) {\r\n"
    \o "    char *p = malloc(8);\r\n    sprintf(p, \"x\");\r\n    return 0;\r\n}\r\n"

\* a small project
SmallProject ==
    ("CMakeLists.txt" :> story_cmake) @@ ("README.md" :> "Jansson\n")
    @@ ("Makefile.am" :> "SUBDIRS = src\n") @@ (".git/config" :> "[core]\n")
    @@ ("src/jansson.h" :> story_header) @@ ("src/dump.c" :> story_dump)
    @@ ("src/load.c" :> story_load) @@ ("doc/conf.py" :> "\n")
    @@ ("test/suites/api/test_array.c" :> "int main(void) {\n    return 0;\n}\n")
    @@ ("test/scripts/run-tests.sh" :> "#!/bin/sh\n")
    @@ ("test/README.txt" :> "tests\n")

Restrict(files, keep) == [f \in DOMAIN files \cap keep |-> files[f]]

StoryTrees ==
    {<<>>, SmallProject,
     Restrict(SmallProject, {"README.md", "Makefile.am", "test/README.txt"}),
     Restrict(SmallProject, {"src/load.c", "src/dump.c"})}

InitStory ==
    /\ disk \in StoryTrees
    /\ listing \in Listings(disk)
    /\ NoProcess

NextStory ==
    \/ \E path \in ProjectPaths : NewAnalyzer(path)
    \/ AnalyzeProjectStructure
    \/ AnalyzeSourceCode
    \/ AnalyzeBuildSystem
    \/ AnalyzeTests
    \/ \E now \in Clock : GenerateStory(now)

SpecStory == InitStory /\ [][NextStory]_vars

(***************************************************************************)
(* run_analysis on projects whose src directory holds from no C file to    *)
(* MaxListed C files, the first of them under a name of up to MaxBreaks    *)
(* line feeds.                                                             *)
(***************************************************************************)

\* what a C file of such a project holds
ReportContents ==
    {"int x;\n", "strcpy(a, b);\n", "strcpy(a, b);\nsprintf(a, b);\n",
     "strcpy(a, b);\nsprintf(a, b);\np = malloc(1);\n"}

\* how many C files it has
ReportSizes == 0..MaxListed

\* how many line feeds the name of its first C file holds
ReportBreaks == {0, MaxBreaks - 1, MaxBreaks}

\* the name of SourceName(1) after k lines that read "f"
BrokenName(k) == Concat([i \in 1..k |-> "f\n"]) \o SourceName(1)

\* a project of n C files of the same content
Project(n, k, content) ==
    [f \in {"src/" \o (IF j = 1 THEN BrokenName(k) ELSE SourceName(j)) : j \in 1..n}
        |-> content]

ReportTrees ==
    {Project(n, k, c) : n \in ReportSizes, k \in ReportBreaks, c \in ReportContents}

InitReport ==
    /\ disk \in ReportTrees
    /\ listing \in Listings(disk)
    /\ NoProcess

NextReport ==
    \/ \E path \in {".", "/non/existent/path"} : NewAnalyzer(path)
    \/ \E now \in Clock : RunAnalysis(now)

SpecReport == InitReport /\ [][NextReport]_vars

(***************************************************************************)
(* test_vulnerable_patterns on a tree: what its five grep commands give    *)
(* back is computed from the one file the tree holds below src/.           *)
(***************************************************************************)

MaxPatternLines == 2 \* lines of the file below src/

\* chr(0), as the texts of this module write it
Nul == "@"

\* the pieces of the text between the characters of ends
Pieces(text, ends) ==
    LET cut == Ascending({i \in 1..Len(text) : SubSeq(text, i, i) \in ends},
                         1, Len(text))
    IN  [k \in 1..(Len(cut) + 1) |->
            SubSeq(text, IF k = 1 THEN 1 ELSE cut[k - 1] + 1,
                         IF k > Len(cut) THEN Len(text) ELSE cut[k] - 1)]

\* the lines grep reads from the bytes of a file: they end at "\n" and
\* nowhere else, and a last line need not end in "\n"
grep_file_lines(bytes) ==
    LET lines == Pieces(bytes, {"\n"})
    IN  IF lines[Len(lines)] = "" THEN SubSeq(lines, 1, Len(lines) - 1) ELSE lines

\* \bpattern\b matches in the line: the pattern stands there with no word
\* character right before it and none right after it
grep_word(pattern, line) ==
    \E p \in Hits(line, pattern) :
        /\ p = 1 \/ SubSeq(line, p - 1, p - 1) \notin WordChars
        /\ \/ p + Len(pattern) > Len(line)
           \/ SubSeq(line, p + Len(pattern), p + Len(pattern)) \notin WordChars

\* .*\*.*sizeof.* matches in the line: a star, and "sizeof" after it
grep_sizeof(line) ==
    \E p \in Hits(line, "*") : \E q \in Hits(line, "sizeof") : p < q

\* whether the grep command of a pattern selects the line
grep_selects(pattern, line) ==
    CASE pattern = "sprintf" -> Occurs("sprintf", line)
      [] pattern = "sizeof" -> grep_sizeof(line)
      [] OTHER -> grep_word(pattern, line)

\* subprocess.run(["grep", "-r", <pattern>, "src/"], capture_output=True,
\* text=True) in a tree with at most one file below src/: status 2 when
\* there is no src/, 1 when nothing is selected, else 0.  A file without
\* chr(0) gives its selected lines, each after the path of the file and a
\* colon; text=True reads them with universal newlines, so a "\r" inside a
\* selected line ends a line of stdout.  A file holding chr(0) is a binary
\* file: chr(0) ends a line as "\n" does, and a selected line is reported
\* on stderr only, stdout staying empty.
grep_r(files, pattern) ==
    LET below == {path \in DOMAIN files : StartsWith(path, "src/")}
    IN  IF below = {} THEN [rc |-> 2, stdout |-> ""]
        ELSE LET path == CHOOSE f \in below : TRUE
                 binary == Occurs(Nul, files[path])
                 lines == IF binary THEN Pieces(files[path], {"\n", Nul})
                          ELSE grep_file_lines(files[path])
                 hits == SelectSeq(lines, LAMBDA l : grep_selects(pattern, l))
             IN  IF hits = <<>> THEN [rc |-> 1, stdout |-> ""]
                 ELSE IF binary THEN [rc |-> 0, stdout |-> ""]
                 ELSE [rc |-> 0,
                       stdout |-> ReadText(Concat([k \in DOMAIN hits |->
                                             path \o ":" \o hits[k] \o "\n"]))]

\* what the five grep commands of test_vulnerable_patterns give in a tree
\* that stays as it is while they run
tree_greps(files) ==
    [pattern \in Range(tvp_greps) |-> grep_r(files, pattern)]

PatternLines == {
    "    json_sprintf(buf, fmt);",
    "    sprintf(buf, \"%s\", s);",
    "    exp_len = sprintf(p, \"%d\", exp);",
    "    x = 1; /* sprintf */  ",
    "    /* sprintf */ snprintf(buf, n, fmt);",
    "    /* see sprintf() */",
    "    return 0;",
    "",
    "    strcpy(a, b);",
    "    p = malloc(n * sizeof(int));",
    "    sprintf(buf, \"%s\", s); @",
    "    return 0;\r    sprintf(buf, \"%s\", s);",
    "    strcpy(a, b);\r"
}

DtoaC == "src/dtoa.c"

\* the texts of n lines of PatternLines, each ended by "\n"
RECURSIVE PatternTexts(_)
PatternTexts(n) ==
    IF n = 0 THEN {""}
    ELSE {t \o line \o "\n" : t \in PatternTexts(n - 1), line \in PatternLines}

InitPatterns ==
    /\ \E path \in {DumpC, DtoaC} : \E n \in 0..MaxPatternLines :
          \E c \in PatternTexts(n) : disk = (path :> c)
    /\ listing \in Listings(disk)
    /\ NoProcess

\* python3 -c "import test_analysis; test_analysis.test_vulnerable_patterns()"
StartPatterns ==
    /\ pc = "idle"
    /\ Len(hist) < MaxTestRuns
    /\ prog' = "test_vulnerable_patterns"
    /\ pc' = "run"
    /\ UNCHANGED <<disk, modified, before, mem, out, fault, opened, hist, aux>>

\* the grep of tvp_greps[k] runs in the tree as it is at that moment, with
\* grep installed, and returns
TvpGrepOnTree(k) ==
    /\ Cardinality({path \in DOMAIN disk : StartsWith(path, "src/")}) <= 1
    /\ TvpGrep(k, TRUE, grep_r(disk, tvp_greps[k]))

NextPatterns ==
    \/ StartPatterns
    \/ RunTestVulnerablePatterns
    \/ \E k \in DOMAIN tvp_greps : TvpGrepOnTree(k)
    \/ Exit

SpecPatterns == InitPatterns /\ [][NextPatterns]_vars

(***************************************************************************)
(* Properties.  A run is a record of hist: the script, the bytes of its    *)
(* target file before and after it, what it printed, the exception that    *)
(* ended it and whether it opened the file for writing.                    *)
(***************************************************************************)

\* the texts a patch tool looks for
Anchors(p) ==
    CASE p = "patch1" -> {p1_anchor}
      [] p = "patch2" -> {old_function}
      [] p = "patch3_fix" -> {p3_signature}
      [] p = "patch3_fix2" -> {old_start}
      [] p = "patch5" -> {old_hashtable_set, old_hashtable_get, old_hashtable_del}

AnchorOccurs(p, bytes) == \E a \in Anchors(p) : Occurs(a, bytes)

\* the non-overlapping occurrences of needle in hay, as hay.count(needle)
RECURSIVE CountFrom(_, _, _)
CountFrom(hits, width, from) ==
    LET i == NextHit(hits, from)
    IN  IF i = 0 THEN 0 ELSE 1 + CountFrom(hits, width, i + width)

Count(hay, needle) == CountFrom(Hits(hay, needle), Len(needle), 1)

AnchorRepeated(p, bytes) == \E a \in Anchors(p) : Count(bytes, a) > 1

\* the lines of a file as they are on disk, each with its own terminator
\* ("\n", "\r\n" or "\r")
RawLines(bytes) ==
    LET ends == Ascending({i \in 1..Len(bytes) :
                              \/ SubSeq(bytes, i, i) = "\n"
                              \/ SubSeq(bytes, i, i) = "\r" /\ ~At(bytes, "\n", i + 1)},
                          1, Len(bytes))
        n == IF Len(ends) > 0 /\ ends[Len(ends)] = Len(bytes) THEN Len(ends)
             ELSE IF Len(bytes) = 0 THEN 0 ELSE Len(ends) + 1
    IN  [k \in 1..n |->
            SubSeq(bytes, IF k = 1 THEN 1 ELSE ends[k - 1] + 1,
                          IF k > Len(ends) THEN Len(bytes) ELSE ends[k])]

\* the run found its target file: open() raises FileNotFoundError exactly
\* when the file is missing
TargetThere(run) == run.fault # "FileNotFoundError"

\* C1: a patch tool whose anchor does not occur in its target file leaves
\* the file byte for byte as it was.
C1_AbsentAnchorLeavesFile ==
    \A i \in DOMAIN hist :
        (/\ hist[i].prog \in PatchTools
         /\ hist[i].fault = "none"
         /\ ~AnchorOccurs(hist[i].prog, hist[i].before))
            => hist[i].after = hist[i].before

\* C2: a second run of an exact-text patch tool changes nothing: the file
\* after the second run is the file after the first.
C2_SecondRunNoOp ==
    \A i \in DOMAIN hist :
        (/\ i + 1 \in DOMAIN hist
         /\ hist[i].prog \in ExactTextTools
         /\ hist[i + 1].prog = hist[i].prog)
            => hist[i + 1].after = hist[i].after

\* a first run that replaced an anchor, followed by a second run of the tool
C2_Witness ==
    \E i \in DOMAIN hist :
        /\ i + 1 \in DOMAIN hist
        /\ hist[i].prog \in ExactTextTools
        /\ hist[i + 1].prog = hist[i].prog
        /\ hist[i].after # hist[i].before
        /\ AnchorOccurs(hist[i].prog, hist[i].before)
        /\ Status(hist[i].prog) \in Range(hist[i + 1].out)

\* C3: patch1 run twice on a file holding the anchor line gives the file
\* that one run gives.
C3_Patch1TwiceAsOnce ==
    \A i \in DOMAIN hist :
        (/\ i + 1 \in DOMAIN hist
         /\ hist[i].prog = "patch1"
         /\ hist[i + 1].prog = "patch1"
         /\ Occurs(p1_anchor, hist[i].before))
            => hist[i + 1].after = hist[i].after

\* C4: an exact-text patch tool whose anchor occurs more than once leaves
\* the file untouched and does not report success.
C4_RepeatedAnchorUntouched ==
    \A i \in DOMAIN hist :
        (/\ hist[i].prog \in ExactTextTools
         /\ AnchorRepeated(hist[i].prog, hist[i].before))
            => /\ hist[i].after = hist[i].before
               /\ Status(hist[i].prog) \notin Range(hist[i].out)

\* C5: while a patch tool runs, its target file holds the whole original
\* content or the whole new content, nothing else.
C5_FileWholeAtEveryStep ==
    (prog \in PatchTools /\ Target(prog) \in DOMAIN disk) =>
        \/ disk[Target(prog)] = before
        \/ /\ pc \in {"close", "print", "exit"}
           /\ disk[Target(prog)] = WriteBytes(mem)

\* C6: a patch tool prints its "Patch N applied" line only when its anchor
\* was found and the file content was changed; otherwise it reports why not.
C6_SuccessOnlyWhenChanged ==
    \A i \in DOMAIN hist :
        (hist[i].prog \in PatchTools /\ hist[i].fault = "none")
            => IF AnchorOccurs(hist[i].prog, hist[i].before)
                    /\ hist[i].after # hist[i].before
               THEN TRUE
               ELSE /\ Status(hist[i].prog) \notin Range(hist[i].out)
                    /\ hist[i].out # <<>>

\* C7: patch3_fix keeps every byte outside the range it located: the file
\* after it is the raw lines before start_line, the new function, and the
\* raw lines after end_line.
C7_OutsideRangePreserved ==
    \A i \in DOMAIN hist :
        (hist[i].prog = "patch3_fix" /\ hist[i].opened)
            => LET r == p3_locate(ReadLines(ReadText(hist[i].before)))
                   raw == RawLines(hist[i].before)
               IN  hist[i].after =
                       Concat(SubSeq(raw, 1, r.start_line - 1))
                           \o Concat(p3_new_function)
                           \o Concat(SubSeq(raw, r.end_line + 1, Len(raw)))

\* some closing-brace line is followed by a line that names strbuffer_pop
EndConditionMet(lines) ==
    \E k \in 1..(Len(lines) - 1) :
        Strip(lines[k]) = "}" /\ Occurs(p3_next_function, lines[k + 1])

\* C8: when the signature is there and no line meets the end condition,
\* patch3_fix reports not-found, raises nothing and does not write.
C8_FailsClosedAtEndOfFile ==
    \A i \in DOMAIN hist :
        (/\ hist[i].prog = "patch3_fix"
         /\ Occurs(p3_signature, hist[i].before)
         /\ ~EndConditionMet(ReadLines(ReadText(hist[i].before))))
            => /\ hist[i].fault = "none"
               /\ hist[i].out = <<p3_not_found>>
               /\ ~hist[i].opened

\* C9: on an empty file, or one without the signature, patch3_fix reports
\* not-found, raises nothing and does not open the file for writing.
C9_NotFoundWithoutSignature ==
    \A i \in DOMAIN hist :
        (/\ hist[i].prog = "patch3_fix"
         /\ TargetThere(hist[i])
         /\ (hist[i].before = "" \/ ~Occurs(p3_signature, hist[i].before)))
            => /\ hist[i].fault = "none"
               /\ hist[i].out = <<p3_not_found>>
               /\ ~hist[i].opened
               /\ hist[i].after = hist[i].before

\* a run of patch3_fix on a file that has closing braces but no signature
C9_Witness ==
    \E i \in DOMAIN hist :
        /\ hist[i].prog = "patch3_fix"
        /\ hist[i].before # ""
        /\ ~Occurs(p3_signature, hist[i].before)
        /\ \E k \in DOMAIN ReadLines(ReadText(hist[i].before)) :
               Strip(ReadLines(ReadText(hist[i].before))[k]) = "}"
        /\ hist[i].out = <<p3_not_found>>

\* C10: check_input_validation reports a failure whenever one of its
\* markers is missing from the file.
C10_MissingMarkerReported ==
    \A i \in DOMAIN hist :
        (/\ hist[i].prog = "check_input_validation"
         /\ TargetThere(hist[i])
         /\ \E k \in DOMAIN validation_checks :
                ~Occurs(validation_checks[k], ReadText(hist[i].before)))
            => \E j \in DOMAIN hist[i].out : At(hist[i].out[j], BadMark, 1)

(***************************************************************************)
(* Properties of the verification driver, the tests and the scanner.       *)
(***************************************************************************)

\* the texts a probe looks for
Markers(c) ==
    CASE c = "check_compiler_flags" -> Range(ccf_security_flags)
      [] c = "check_memory_safety" -> {cms_marker}
      [] c = "check_hashtable_randomization" -> {chr_marker}
      [] c = "check_buffer_overflow_protection" -> {cbop_marker}
      [] c = "check_input_validation" -> Range(validation_checks)

\* the probe c passes on the bytes: every text it looks for is in them
Passes(c, bytes) == \A m \in Markers(c) : Occurs(m, ReadText(bytes))

\* C11: main reports that all security patches were applied, and exits with
\* status 0, only if every one of its five probes passed on the tree.
C11_SuccessOnlyIfEveryProbePassed ==
    \A i \in DOMAIN hist :
        (/\ hist[i].prog = "main"
         /\ main_summary[Len(main_summary)] \in Range(hist[i].out)
         /\ hist[i].rc = 0)
            => \A c \in Checks :
                   Target(c) \in DOMAIN disk /\ Passes(c, disk[Target(c)])

\* the names of the tests a run of test_analysis.main called, in call order
Called(run) == [k \in DOMAIN run.calls |-> run.calls[k].test]

\* C12: test_analysis.main calls every test of its list exactly once, in
\* list order, whatever the earlier tests did; an exception of a test does
\* not leave main; and the exit status is 0 exactly when every test
\* returned True.
C12_EveryTestRunOnce ==
    /\ prog = "test_analysis.main" =>
            Called([calls |-> calls]) = SubSeq(tam_tests, 1, Len(calls))
    /\ \A i \in DOMAIN hist :
           hist[i].prog = "test_analysis.main" =>
               /\ Called(hist[i]) = tam_tests
               /\ hist[i].fault = "none"
               /\ hist[i].rc \in {0, 1}
               /\ hist[i].rc = 0 <=>
                      \A k \in DOMAIN hist[i].calls : hist[i].calls[k].ret = "True"

\* a run whose first test raised, whose second returned True and whose
\* third returned False, and that ended with status 1
C12_Witness ==
    \E i \in DOMAIN hist :
        /\ hist[i].prog = "test_analysis.main"
        /\ Len(hist[i].calls) = Len(tam_tests)
        /\ hist[i].calls[1].ret = "raise"
        /\ hist[i].calls[2].ret = "True"
        /\ hist[i].calls[3].ret = "False"
        /\ hist[i].rc = 1

\* the probe of reproduce_issues_fixed that looks at what a patch tool wrote
ProbeOf(p) ==
    CASE p = "patch1" -> "check_compiler_flags"
      [] p = "patch2" -> "check_memory_safety"
      [] p = "patch3_fix2" -> "check_buffer_overflow_protection"
      [] p = "patch5" -> "check_input_validation"

RoundTripTools == {"patch1", "patch2", "patch3_fix2", "patch5"}

\* the lines of a probe's output that start with mark
Marked(lines, mark) == {k \in DOMAIN lines : At(lines[k], mark, 1)}

\* C13: when the file holds each text a patch tool looks for exactly once,
\* the probe run after the tool finds every marker it looks for: it prints
\* one found line per marker and no missing line.
C13_PatchThenProbePasses ==
    \A i \in DOMAIN hist :
        (/\ i + 1 \in DOMAIN hist
         /\ hist[i].prog \in RoundTripTools
         /\ \A a \in Anchors(hist[i].prog) : Count(ReadText(hist[i].before), a) = 1
         /\ hist[i + 1].prog = ProbeOf(hist[i].prog))
            => /\ Passes(hist[i + 1].prog, hist[i].after)
               /\ Marked(hist[i + 1].out, BadMark) = {}
               /\ Cardinality(Marked(hist[i + 1].out, OkMark))
                      = Cardinality(Markers(hist[i + 1].prog))

\* patch3_fix2 replaced its one anchor and the strbuffer probe, run next,
\* printed that the bounds check is there
C13_Witness ==
    \E i \in DOMAIN hist :
        /\ i + 1 \in DOMAIN hist
        /\ hist[i].prog = "patch3_fix2"
        /\ Count(ReadText(hist[i].before), old_start) = 1
        /\ ~Occurs(cbop_marker, hist[i].before)
        /\ hist[i + 1].prog = "check_buffer_overflow_protection"
        /\ OkMark \o " Bounds checking added to strbuffer" \in Range(hist[i + 1].out)

\* C14: test_security_flags, called after patch1 has run on a CMakeLists.txt
\* that held the anchor line, returns True.
C14_FlagsTestPassesAfterPatch1 ==
    \A i \in DOMAIN hist :
        (/\ i + 1 \in DOMAIN hist
         /\ hist[i].prog = "patch1"
         /\ Occurs(p1_anchor, hist[i].before)
         /\ hist[i + 1].prog = "test_security_flags")
            => hist[i + 1].calls = <<[test |-> "test_security_flags", ret |-> "True"]>>

\* the calls the scanner is to let pass although an unsafe name is part of
\* their name
SafeCalls == <<"json_vsprintf", "json_sprintf", "vsnprintf", "snprintf", "fgets">>

\* the line with every safe call taken out
RECURSIVE WithoutSafeCalls(_, _)
WithoutSafeCalls(line, k) ==
    IF k > Len(SafeCalls) THEN line
    ELSE WithoutSafeCalls(Replace(line, SafeCalls[k], ""), k + 1)

NamesUnsafe(line) ==
    \E k \in DOMAIN acf_unsafe_functions : Occurs(acf_unsafe_functions[k], line)

UnsafeFinding(i) == "Line " \o ToString(i) \o ": Potentially unsafe function usage"

\* C15: analyze_c_file reports an unsafe-call finding for a line exactly
\* when the line names an unsafe function outside the safe calls: a line
\* whose only match is json_sprintf or snprintf is not reported, a line
\* calling sprintf, strcpy, strcat or gets is.
C15_SafeCallsNotReported ==
    \A i \in DOMAIN hist :
        (hist[i].prog = "analyze_c_file" /\ hist[i].arg \in DOMAIN disk) =>
            LET lines == Split(ReadText(hist[i].before))
            IN  \A k \in DOMAIN lines :
                    UnsafeFinding(k) \in Range(hist[i].issues)
                        <=> NamesUnsafe(WithoutSafeCalls(lines[k], 1))

\* the state a call puts its file in
StageOf(p) ==
    CASE p = "analyze_c_file" -> "Scanned"
      [] p \in PatchTools -> "PatchAttempted"
      [] p \in Checks \cup {"test_security_flags"} -> "Verified"

\* the state of the file after the first n calls of hist
\* the runs that found their file
Found == SelectSeq(hist, TargetThere)

Stage(n) == IF n = 0 THEN "Unscanned" ELSE StageOf(Found[n].prog)

StageOrder == <<"Unscanned", "Scanned", "PatchAttempted", "Verified">>

\* C16: the file goes through Unscanned, Scanned, PatchAttempted, Verified
\* in this order, one state at a time, and no run of a script is over with
\* the file left in PatchAttempted: verification follows every patch attempt
\* before the run ends.
C16_StagesInOrder ==
    /\ \A n \in DOMAIN Found :
           \E k \in 1..(Len(StageOrder) - 1) :
               Stage(n - 1) = StageOrder[k] /\ Stage(n) = StageOrder[k + 1]
    /\ (pc = "exit" /\ fault # "FileNotFoundError") =>
           StageOf(prog) # "PatchAttempted"

\* how many leading elements two lists have in common
CommonPrefix(a, b) ==
    LET n == IF Len(a) < Len(b) THEN Len(a) ELSE Len(b)
        d == NextHit({k \in 1..n : a[k] # b[k]}, 1)
    IN  IF d = 0 THEN n ELSE d - 1

\* how many trailing elements two lists have in common after their first
\* skip elements
CommonSuffix(a, b, skip) ==
    LET n == (IF Len(a) < Len(b) THEN Len(a) ELSE Len(b)) - skip
        d == NextHit({k \in 1..n : a[Len(a) - k + 1] # b[Len(b) - k + 1]}, 1)
    IN  IF d = 0 THEN n ELSE d - 1

\* C17: a patch tool keeps the line terminator of every line it does not
\* replace.  The lines not replaced are the lines, as the tool reads them,
\* that the file has in common before and after the run, at its start and
\* at its end (all of them when the anchor is absent); each of them is on
\* disk after the run with the terminator it had before.
C17_LineEndingsPreserved ==
    \A i \in DOMAIN hist :
        (hist[i].prog \in PatchTools /\ hist[i].fault = "none") =>
            LET textBefore == ReadLines(ReadText(hist[i].before))
                textAfter == ReadLines(ReadText(hist[i].after))
                rawBefore == RawLines(hist[i].before)
                rawAfter == RawLines(hist[i].after)
                head == CommonPrefix(textBefore, textAfter)
                tail == CommonSuffix(textBefore, textAfter, head)
            IN  /\ \A k \in 1..head : rawAfter[k] = rawBefore[k]
                /\ \A k \in 1..tail :
                       rawAfter[Len(rawAfter) - k + 1] = rawBefore[Len(rawBefore) - k + 1]

(* Properties of the analyzer's story.                                     *)
(***************************************************************************)

\* test_analyzer: the sections a story must have
required_sections == <<
    "Project Context & Overview",
    "Problem Statement",
    "Architecture & Structure",
    "Technology Stack",
    "Key Features & Capabilities",
    "Security Considerations",
    "Development Insights",
    "Quality Assessment",
    "Developer Recommendations">>

\* test_analyzer: len(content.splitlines()) of a file read in text mode
line_count(bytes) == Len(splitlines(ReadText(bytes)))

\* C19: whatever project is analysed, the PROJECT_STORY.md that
\* run_analysis has written has at most 500 lines.
C19_StoryAtMost500Lines ==
    \A i \in DOMAIN hist :
        (hist[i].prog = "run_analysis" /\ hist[i].fault = "none")
            => line_count(hist[i].after) <= 500

\* what a story says of the counts of an analysis that has not run
ZeroLines(analysis) ==
    CASE analysis = "structure" ->
            {"With 0 total files and 0 C implementation files,",
             "- **Documentation**: 0 documentation files\n"}
      [] analysis = "source_analysis" ->
            {"toolkit with 0 public API functions:\n",
             "coding style across all 0 lines of code\n",
             "- **Function Count**: 0 functions across the codebase\n",
             "- **API Surface**: 0 public API functions\n",
             "- No major security concerns identified\n"}
      [] analysis = "test_info" ->
            {"- **Testing**: 0 test files ensuring reliability\n",
             "Comprehensive test suite with 0 test files\n"}
      [] analysis = "build_info" -> {}

Analyses == {"structure", "source_analysis", "build_info", "test_info"}

\* C20: analyze_project_structure on a path that does not exist raises
\* nothing and counts 0 files of every category; and a story generated while
\* any of the four analyses is missing has all nine required sections and
\* says 0 for each count of a missing analysis.
C20_MissingInputsGiveZeros ==
    /\ (prog = "analyze_project_structure" /\ ~Exists(disk, project_path))
          => /\ fault = "none"
             /\ \A k \in {"total_files", "c_files", "header_files", "test_files",
                          "documentation_files", "build_files"} :
                    analysis_data["structure"][k] = 0
    /\ prog = "generate_story"
          => /\ fault = "none"
             /\ \A k \in DOMAIN required_sections : Occurs(required_sections[k], mem)
             /\ \A a \in Analyses \ DOMAIN analysis_data :
                    \A text \in ZeroLines(a) : Occurs(text, mem)

\* a story was generated for a path that does not exist, after its structure
\* was analysed and before its tests were
C20_Witness ==
    /\ prog = "generate_story"
    /\ ~Exists(disk, project_path)
    /\ "structure" \in DOMAIN analysis_data
    /\ analysis_data["structure"].total_files = 0
    /\ "test_info" \notin DOMAIN analysis_data
    /\ Occurs("## 9. Developer Recommendations\n", mem)

(***************************************************************************)
(* Properties of the scanner's allocation check, the line-range locator,   *)
(* the hashtable patch, the sprintf allow-list and the flag insertion.     *)
(***************************************************************************)

\* the allocation finding of line k
AllocFinding(k) ==
    "Line " \o ToString(k) \o ": Memory allocation without corresponding free"

\* C21: analyze_c_file reports a line for allocation without release
\* exactly when the line contains "malloc" and "free" occurs nowhere in the
\* file; so in one file every line containing "malloc" is reported or none.
C21_AllocationCheckFileScoped ==
    \A i \in DOMAIN hist :
        (hist[i].prog = "analyze_c_file" /\ hist[i].arg \in DOMAIN disk) =>
            LET content == ReadText(hist[i].before)
                lines == Split(content)
                reported == {k \in DOMAIN lines :
                                AllocFinding(k) \in Range(hist[i].issues)}
                allocating == {k \in DOMAIN lines : Occurs("malloc", lines[k])}
            IN  /\ \A k \in DOMAIN lines :
                       k \in reported
                           <=> (k \in allocating /\ ~Occurs("free", content))
                /\ reported = allocating \/ reported = {}

\* a scan of a file whose two lines both allocate and that never frees
C21_Witness ==
    \E i \in DOMAIN hist :
        /\ hist[i].prog = "analyze_c_file"
        /\ Occurs("malloc", hist[i].before)
        /\ ~Occurs("free", hist[i].before)
        /\ {AllocFinding(1), AllocFinding(2)} \subseteq Range(hist[i].issues)

\* a line that is a closing brace in its first column and nothing else but
\* spaces after it and its terminator
ColumnZeroBrace(line) == Strip(line) = "}" /\ SubSeq(line, 1, 1) = "}"

\* the lines j of a file, after line s, that the end condition as specified
\* accepts: a closing brace at column 0 whose next line names strbuffer_pop
SpecifiedEnds(lines, s) ==
    {j \in (s + 1)..(Len(lines) - 1) :
        ColumnZeroBrace(lines[j]) /\ Occurs(p3_next_function, lines[j + 1])}

\* C22: when patch3_fix locates a span, its end line is a closing brace at
\* column 0 whose next line contains "strbuffer_pop", the first such line
\* after the signature line; an indented closing brace is never the end.
C22_EndIsFirstColumnZeroBrace ==
    \A i \in DOMAIN hist :
        (hist[i].prog = "patch3_fix" /\ hist[i].fault = "none") =>
            LET lines == ReadLines(ReadText(hist[i].before))
                r == p3_locate(lines)
            IN  (r.start_line # 0 /\ r.end_line # 0) =>
                    /\ ColumnZeroBrace(lines[r.end_line])
                    /\ r.end_line \in SpecifiedEnds(lines, r.start_line)
                    /\ \A j \in SpecifiedEnds(lines, r.start_line) : r.end_line <= j

\* the line a signature-based locator looks for
LocatorLine(p) == IF p = "patch1" THEN p1_anchor ELSE p3_signature

\* the lines of a file that hold the locator line of tool p
LocatorHits(p, bytes) ==
    LET lines == Split(ReadText(bytes))
    IN  {k \in DOMAIN lines : Occurs(LocatorLine(p), lines[k])}

\* C23: when the signature line of patch3_fix, or the anchor line of patch1,
\* is on more than one line of the target file, the tool leaves the file as
\* it was and does not print its success line.
C23_RepeatedLocatorLineFails ==
    \A i \in DOMAIN hist :
        (/\ hist[i].prog \in {"patch1", "patch3_fix"}
         /\ Cardinality(LocatorHits(hist[i].prog, hist[i].before)) > 1)
            => /\ hist[i].after = hist[i].before
               /\ Status(hist[i].prog) \notin Range(hist[i].out)

\* the three functions patch5 looks for
p5_anchors == {old_hashtable_set, old_hashtable_get, old_hashtable_del}

\* C24: patch5 replaces all three of hashtable_set, hashtable_get and
\* hashtable_del or none: after a run either the text of the file is what it
\* was, or each of the three old functions was there and has been replaced.
C24_Patch5AllOrNothing ==
    \A i \in DOMAIN hist :
        (hist[i].prog = "patch5" /\ hist[i].fault = "none") =>
            \/ ReadText(hist[i].after) = ReadText(hist[i].before)
            \/ /\ \A a \in p5_anchors : Occurs(a, ReadText(hist[i].before))
               /\ \A a \in p5_anchors : ~Occurs(a, ReadText(hist[i].after))

\* the lines of the replacement function that are a closing brace and not
\* its last line
InnerBraces ==
    {k \in 1..(Len(p3_new_function) - 1) : Strip(p3_new_function[k]) = "}"}

\* C25: a second run of patch3_fix on the file its first run wrote finds the
\* span the first run wrote, from the signature line to the final brace of
\* the replacement and past its inner brace, and writes the same content.
C25_Patch3FixSecondRunSameSpan ==
    \A i \in DOMAIN hist :
        (/\ i + 1 \in DOMAIN hist
         /\ hist[i].prog = "patch3_fix"
         /\ hist[i + 1].prog = "patch3_fix"
         /\ hist[i].opened)
            => LET first == p3_locate(ReadLines(ReadText(hist[i].before)))
                   second == p3_locate(ReadLines(ReadText(hist[i + 1].before)))
               IN  /\ hist[i + 1].before = hist[i].after
                   /\ hist[i + 1].fault = "none"
                   /\ hist[i + 1].opened
                   /\ second.start_line = first.start_line
                   /\ second.end_line = first.start_line + Len(p3_new_function) - 1
                   /\ \A k \in InnerBraces :
                          second.end_line # second.start_line + k - 1
                   /\ hist[i + 1].after = hist[i].after
                   /\ p3_status \in Range(hist[i + 1].out)

\* two runs of patch3_fix, the first of which replaced an old function
C25_Witness ==
    \E i \in DOMAIN hist :
        /\ i + 1 \in DOMAIN hist
        /\ hist[i].prog = "patch3_fix"
        /\ hist[i + 1].prog = "patch3_fix"
        /\ hist[i].opened
        /\ hist[i].after # hist[i].before
        /\ hist[i + 1].opened
        /\ InnerBraces # {}

\* the texts that clear a line of the sprintf grep
SprintfAllowList == {
    "json_sprintf", "json_vsprintf", "dtoa.c", "sprintf()",
    "sprintf(buf, \"%#.0f\", 1.0)", "exp_len = sprintf(p, \"%d\", exp)"
}

\* a line of grep output no text of the list clears
Offending(line) ==
    /\ Strip(line) # ""
    /\ \A a \in SprintfAllowList : ~Occurs(a, line)
    /\ ~EndsWith(Strip(line), "/* sprintf */")

\* the run printed the line of the stage
Printed(run, stage) ==
    \E k \in DOMAIN run.out : StartsWith(run.out[k], BadMark \o " Found " \o stage)

\* the text with its lines in reverse order
Reversed(text) ==
    LET lines == grep_file_lines(text)
    IN  Concat([k \in DOMAIN lines |-> lines[Len(lines) + 1 - k] \o "\n"])

\* the lines of what grep -r sprintf src/ gives the test in the tree
SprintfOutput(files) ==
    LET grep == grep_r(files, "sprintf")
    IN  IF grep.rc = 0 THEN Split(grep.stdout) ELSE <<>>

\* C26: once the unsafe-function greps have cleared the tree,
\* test_vulnerable_patterns fails on sprintf exactly when some line of the
\* output of grep -r sprintf src/ is not blank, holds no text of the
\* allow-list and does not end in "/* sprintf */"; where the line stands in
\* the file does not matter: the file with its lines in reverse order gives
\* the same verdict.
C26_SprintfAllowListBySubstring ==
    \A i \in DOMAIN hist :
        (hist[i].prog = "test_vulnerable_patterns" /\ hist[i].fault = "none") =>
            LET lines == SprintfOutput(disk)
                offending == {k \in DOMAIN lines : Offending(lines[k])}
            IN  /\ ~Printed(hist[i], "unsafe function") =>
                       /\ Printed(hist[i], "unsafe sprintf usage") <=> offending # {}
                       /\ offending # {} => hist[i].calls[1].ret = "False"
                /\ \A path \in DOMAIN disk :
                       hist[i].calls[1].ret =
                           test_vulnerable_patterns(
                               TRUE, tree_greps(path :> Reversed(disk[path]))).ret

\* a run that failed on sprintf, where the first line of the grep output is
\* a vetted sprintf call and the second holds "sprintf" and is not cleared
C26_Witness ==
    \E i \in DOMAIN hist :
        /\ hist[i].prog = "test_vulnerable_patterns"
        /\ Printed(hist[i], "unsafe sprintf usage")
        /\ LET lines == SprintfOutput(disk)
           IN  /\ Len(lines) >= 2
               /\ Occurs("exp_len = sprintf(p, \"%d\", exp)", lines[1])
               /\ Occurs("sprintf", lines[2])
               /\ Offending(lines[2])

\* a raw line without its terminator
LineBody(raw) ==
    IF EndsWith(raw, "\r\n") THEN SubSeq(raw, 1, Len(raw) - 2)
    ELSE IF EndsWith(raw, "\n") \/ EndsWith(raw, "\r") THEN SubSeq(raw, 1, Len(raw) - 1)
    ELSE raw

\* the bytes end in a line terminator
EndsInNewline(bytes) == EndsWith(bytes, "\n") \/ EndsWith(bytes, "\r")

\* the file after patch1 is the file before it with the six flag lines put
\* in after raw line i, every other line as it was
FlagsInsertedAfter(i, B, A) ==
    /\ Len(A) = Len(B) + Len(security_flags)
    /\ \A k \in 1..(i - 1) : A[k] = B[k]
    /\ LineBody(A[i]) = LineBody(B[i])
    /\ \A j \in DOMAIN security_flags : LineBody(A[i + j]) = security_flags[j]
    /\ \A k \in (i + 1)..Len(B) : A[k + Len(security_flags)] = B[k]

\* C27: on a CMakeLists.txt with the anchor on some line, patch1 puts the
\* six flag lines right after the first anchor line and nowhere else, leaves
\* every other line as it was and in its place, and keeps the presence or
\* absence of the final newline.
C27_Patch1InsertsAfterFirstAnchorOnly ==
    \A i \in DOMAIN hist :
        (/\ hist[i].prog = "patch1"
         /\ hist[i].fault = "none"
         /\ Occurs(p1_anchor, hist[i].before))
            => LET B == RawLines(hist[i].before)
                   A == RawLines(hist[i].after)
                   first == NextHit({k \in DOMAIN B : Occurs(p1_anchor, B[k])}, 1)
               IN  /\ FlagsInsertedAfter(first, B, A)
                   /\ EndsInNewline(hist[i].after) <=> EndsInNewline(hist[i].before)

====
